---- MODULE Spec2Model ----
(***************************************************************************)
(* A model of the token authority of actix-jwt-auth-middleware:            *)
(* Authority::verify_service_request (src/src/authority.rs), validate_jwt  *)
(* (src/src/validate.rs), the TokenSigner (src/src/token_signer.rs) and    *)
(* AuthenticationMiddleware::call (src/src/middleware/middleware.rs).      *)
(*                                                                         *)
(* Spec: one request is in flight at a time.  A request is handled in the  *)
(* steps at which the Rust future can suspend: the extraction of the       *)
(* hook's arguments, the hook itself, and the wrapped service.             *)
(*                                                                         *)
(* CodecSpec: create_signed_token and validate_jwt on their own, under     *)
(* time options of every leeway.                                           *)
(*                                                                         *)
(* BuilderSpec: the AuthorityBuilder, from Authority::new() to build().    *)
(*                                                                         *)
(* SignerSpec: the operations of a TokenSigner on their own, for signers   *)
(* of every cookie builder and for lifetimes up to Duration::MAX.          *)
(*                                                                         *)
(* TaskSpec: several requests in flight at once against one Authority.     *)
(*                                                                         *)
(* SessionSpec: one client, request after request, with the cookies it     *)
(* received last.                                                          *)
(*                                                                         *)
(* BoundedSpec: such a client of an Authority that does not renew refresh  *)
(* tokens, under any leeway and a hook that approves or denies.            *)
(*                                                                         *)
(* GuardSpec: the middleware with a guard (src/src/middleware.rs), which   *)
(* asks the guard after the verification and before the wrapped service.   *)
(*                                                                         *)
(* RestSpec: RestAuthority::verify_service_request                         *)
(* (src/src/rest_authority.rs), which reads tokens from headers only.      *)
(***************************************************************************)
EXTENDS Integers, Sequences, FiniteSets, TLC

VARIABLES
    cfg,        \* the Authority, built once and never modified
    now,        \* the clock read through TimeOptions::clock_fn
    pc,         \* position of the request's future
    t0,         \* the clock when the request was received
    req,        \* the ServiceRequest: query, headers, cookies
    ext,        \* req.extensions(): the claims inserted, or None
    acc,        \* outcome of validate_access_token for this request
    hook,       \* what happened to the re-authorization hook
    ref,        \* outcome of validate_refresh_token for this request
    minted,     \* tokens created by the token signer for this request
    result,     \* what verify_service_request returned
    inner,      \* calls of the wrapped service: the extensions it saw
    response,   \* what AuthenticationMiddleware::call returned
    signing,    \* the arguments of a call of create_signed_token made on its
                \* own (CodecSpec), or None
    builder,    \* the AuthorityBuilder while an Authority is configured
                \* (BuilderSpec), or None
    jar,        \* the cookies a client holds, by name (SessionSpec), or None
    guard       \* what happened to the guard of the middleware (GuardSpec)

vars == <<cfg, now, pc, t0, req, ext, acc, hook, ref, minted, result, inner, response,
          signing, builder, jar, guard>>

-----------------------------------------------------------------------------
(* Bounds of the model *)

\* the clock counts ticks; a second has TicksPerSecond of them
TicksPerSecond == 2
\* the clock runs over 0..MaxTime
MaxTime == 1
\* custom claims values are 1..NumClaims
NumClaims == 2
\* a request carries at most MaxTokens values over all its sources
MaxTokens == 2
\* the leeway of the time options runs over 0..MaxLeeway
MaxLeeway == 1
\* the lifetime of a token signed on demand runs over 0..MaxLifetime
MaxLifetime == 2
\* a builder gets at most MaxFlagsSet of its boolean fields set
MaxFlagsSet == 2
\* the requests in flight at once
NumTasks == 2

-----------------------------------------------------------------------------
(* Values *)

\* Option<T>: None, or Some(x)
None == << >>
Some(x) == << x >>
Unwrap(o) == o[1]
\* a token without an expiration field
NoExp == 0 - 1

Claims == 1..NumClaims
Keys == {"k1", "k2"}
\* the verifying key of the Authority; a token signed with another key fails
\* signature verification
VerifyingKey == "k1"

\* TokenSigner default time_options: TimeOptions::from_leeway(0)
DefaultLeeway == 0

\* TokenSigner defaults: access_token_lifetime, refresh_token_lifetime
\* (60 s and 30 min in the source; one and two seconds of the model's clock)
AccessLifetime == TicksPerSecond
RefreshLifetime == 2 * TicksPerSecond

AccessName == "access_token"
RefreshName == "refresh_token"
Names == {AccessName, RefreshName}

\* The "exp" field of a token is a NumericDate in whole seconds: the claims
\* are serialized with DateTime::timestamp(), which drops the fraction.
NumericDate(time) == time \div TicksPerSecond
\* the clock reading a NumericDate stands for when the claims are read back
DateTime(seconds) == seconds * TicksPerSecond

\* A compact token as jwt_compact::Claims<T> under a signature.
\* iat is the second of issuance, 0 for the tokens requests are made of.
\* payload = "malformed" : the claims do not deserialize into T.
Jwt(c, e, k, p) ==
    [kind |-> "jwt", custom |-> c, iat |-> 0, exp |-> e, key |-> k, payload |-> p]
\* the token with the iat field the TokenSigner wrote
Issued(jwt, iat) == [jwt EXCEPT !.iat = iat]
\* a string that is no compact token, such as "not-a-valid-token"
Garbage == [kind |-> "garbage"]

\* A header, cookie or query value: the bytes before the token and the token.
Str(prefix, body) == [prefix |-> prefix, body |-> body]

Ok(v) == [ok |-> TRUE, val |-> v]
Err(kind, detail) == [ok |-> FALSE, kind |-> kind, detail |-> detail]

\* a header value with bytes outside visible ASCII: HeaderValue::to_str fails
NotAString == "<opaque bytes>"
to_str(value) == IF value.prefix = NotAString THEN Err("ToStrError", "") ELSE Ok(value)

NoToken == Err("NoToken", "")
NoTokenSigner == Err("NoTokenSigner", "")
Expired == Err("TokenValidation", "Expired")

-----------------------------------------------------------------------------
(* jwt-compact, as validate_jwt uses it *)

\* UntrustedToken::new: the string must be three base64url segments; any byte
\* before the token (such as "Bearer ") makes the first segment undecodable.
UntrustedToken(value) ==
    IF value.prefix = "" /\ value.body.kind = "jwt"
    THEN Ok(value.body)
    ELSE Err("TokenParse", IF value.body.kind = "jwt" THEN "InvalidBase64Encoding"
                           ELSE "InvalidTokenStructure")

\* Validator::validate: the signature first, then the claims are deserialized
Validate(token, verifying_key) ==
    IF token.key # verifying_key THEN Err("TokenValidation", "InvalidSignature")
    ELSE IF token.payload # "ok" THEN Err("TokenValidation", "MalformedClaims")
    ELSE Ok(token)

\* the bug of comparing with the expiration alone, without the leeway
validate_expiration_NoLeeway(token, leeway, clock) ==
    IF token.exp = NoExp THEN Err("TokenValidation", "NoExpiration")
    ELSE IF clock > DateTime(token.exp) THEN Expired
    ELSE Ok(token)

\* Claims::validate_expiration: fails exactly when clock() > expiration + leeway
validate_expiration(token, leeway, clock) ==
    IF token.exp = NoExp THEN Err("TokenValidation", "NoExpiration")
    ELSE IF clock > DateTime(token.exp) + leeway THEN Expired
    ELSE Ok(token)

\* the bug of looking at the expiration before the signature
validate_jwt_ExpiryFirst(value, verifying_key, leeway, clock) ==
    LET untrusted == UntrustedToken(value) IN
    IF ~untrusted.ok THEN untrusted
    ELSE LET token == validate_expiration(untrusted.val, leeway, clock) IN
         IF ~token.ok THEN token
         ELSE Validate(token.val, verifying_key)

validate_jwt(value, verifying_key, leeway, clock) ==
    LET untrusted == UntrustedToken(value) IN
    IF ~untrusted.ok THEN untrusted
    ELSE LET token == Validate(untrusted.val, verifying_key) IN
         IF ~token.ok THEN token
         ELSE validate_expiration(token.val, leeway, clock)

-----------------------------------------------------------------------------
(* Authority: extraction of a token from the sources of a request *)

get_token_from_cookie(a, r, clock, cookie_name) ==
    IF r.cookies[cookie_name] # None
    THEN validate_jwt(Unwrap(r.cookies[cookie_name]), a.verifying_key, a.leeway, clock)
    ELSE NoToken

\* header_map.get(header_key).map(HeaderValue::to_str): a value that is no
\* string counts as no token
get_token_from_header_value(a, r, clock, header_key) ==
    IF r.headers[header_key] # None /\ to_str(Unwrap(r.headers[header_key])).ok
    THEN validate_jwt(Unwrap(r.headers[header_key]), a.verifying_key, a.leeway, clock)
    ELSE NoToken

\* the bug of validating the Authorization header whatever its scheme
get_token_from_authorization_header_AnyScheme(a, r, clock) ==
    IF r.authorization # None
    THEN validate_jwt(Unwrap(r.authorization), a.verifying_key, a.leeway, clock)
    ELSE NoToken

\* strip_prefix("Bearer") only decides whether the header counts; the value
\* handed to validate_jwt is header_value.trim(), the whole header value.
get_token_from_authorization_header(a, r, clock) ==
    IF r.authorization # None /\ to_str(Unwrap(r.authorization)).ok
           /\ Unwrap(r.authorization).prefix = "Bearer "
    THEN validate_jwt(Unwrap(r.authorization), a.verifying_key, a.leeway, clock)
    ELSE NoToken

get_token_from_query(a, r, clock, param_name) ==
    IF r.query[param_name] # None
    THEN validate_jwt(Unwrap(r.query[param_name]), a.verifying_key, a.leeway, clock)
    ELSE NoToken

\* the bug of leaving a source for the next one on any error
continue_if_matches_err_variant_AnyError(res, rest) ==
    IF res.ok THEN res ELSE rest

\* continue_if_matches_err_variant!(e, AuthError::NoToken): a source is left
\* for the next one only when it reports NoToken
continue_if_matches_err_variant(res, rest) ==
    IF res.ok THEN res
    ELSE IF res.kind = "NoToken" THEN rest
    ELSE res

\* the bug of consulting the cookie before the other sources
validate_token_CookieFirst(a, r, clock, token_name) ==
    LET fromQuery ==
            IF a.enable_query_tokens
            THEN continue_if_matches_err_variant(
                     get_token_from_query(a, r, clock, token_name), NoToken)
            ELSE NoToken
        fromHeader ==
            IF a.enable_header_tokens
            THEN continue_if_matches_err_variant(
                     get_token_from_header_value(a, r, clock, token_name), fromQuery)
            ELSE fromQuery
        fromAuthorization ==
            IF a.enable_authorization_header
            THEN continue_if_matches_err_variant(
                     get_token_from_authorization_header(a, r, clock), fromHeader)
            ELSE fromHeader
    IN  IF a.enable_cookie_tokens
        THEN continue_if_matches_err_variant(
                 get_token_from_cookie(a, r, clock, token_name), fromAuthorization)
        ELSE fromAuthorization

validate_token(a, r, clock, token_name) ==
    LET fromCookie ==
            IF a.enable_cookie_tokens
            THEN continue_if_matches_err_variant(
                     get_token_from_cookie(a, r, clock, token_name), NoToken)
            ELSE NoToken
        fromAuthorization ==
            IF a.enable_authorization_header
            THEN continue_if_matches_err_variant(
                     get_token_from_authorization_header(a, r, clock), fromCookie)
            ELSE fromCookie
        fromHeader ==
            IF a.enable_header_tokens
            THEN continue_if_matches_err_variant(
                     get_token_from_header_value(a, r, clock, token_name), fromAuthorization)
            ELSE fromAuthorization
    IN  IF a.enable_query_tokens
        THEN continue_if_matches_err_variant(
                 get_token_from_query(a, r, clock, token_name), fromHeader)
        ELSE fromHeader

validate_access_token(a, r, clock) == validate_token(a, r, clock, a.access_token_name)

validate_refresh_token(a, r, clock) == validate_token(a, r, clock, a.refresh_token_name)

-----------------------------------------------------------------------------
(* TokenSigner *)

\* a panic of the thread that runs the operation
Panic == [ok |-> FALSE, kind |-> "Panic", detail |-> ""]

\* a claims value whose Serialize implementation fails
Unserializable == 0

\* The ranges of the time types, scaled down with their order kept: the
\* clock stays far below DateTime::MAX_UTC, which lies below TimeDelta::MAX,
\* which lies below Duration::MAX.
DateTimeMAX == 100
TimeDeltaMAX == 1000
DurationMAX == 10000

\* the bug of signing default claims instead of the caller's
create_signed_token_DefaultClaims(signer, claims, token_lifetime, clock) ==
    Ok(Str("", Issued(Jwt(1, NumericDate(clock + token_lifetime), signer.signing_key, "ok"),
                      NumericDate(clock))))

\* TimeDelta::from_std(duration): out of range beyond TimeDelta::MAX
from_std(duration) ==
    IF duration > TimeDeltaMAX THEN Err("OutOfRangeError", "") ELSE Ok(duration)

\* the bug of taking the lifetime for the expiration
set_duration_and_issuance_NoClock(claims, duration, clock) ==
    Ok([custom |-> claims, issued_at |-> clock, expiration |-> duration])

\* Claims::new(claims).set_duration_and_issuance(time_options, duration):
\* issued_at is the clock reading, expiration is issued_at + duration, an
\* addition of chrono that panics beyond DateTime::MAX_UTC
set_duration_and_issuance(claims, duration, clock) ==
    IF clock + duration > DateTimeMAX THEN Panic
    ELSE Ok([custom |-> claims, issued_at |-> clock, expiration |-> clock + duration])

\* AlgorithmExt::token(header, claims, signing_key): the claims are
\* serialized, the timestamps as whole seconds, and signed; the serializer
\* of the claims may fail
algorithm_token(token_claims, signing_key) ==
    IF token_claims.custom = Unserializable THEN Err("TokenCreation", "Claims")
    ELSE Ok(Str("", Issued(Jwt(token_claims.custom, NumericDate(token_claims.expiration),
                               signing_key, "ok"),
                           NumericDate(token_claims.issued_at))))

\* TokenSigner::create_signed_token: from_std(token_lifetime).unwrap(), then
\* set_duration_and_issuance, then the token of the algorithm
create_signed_token(signer, claims, token_lifetime, clock) ==
    LET duration == from_std(token_lifetime) IN
    IF ~duration.ok THEN Panic
    ELSE LET token_claims == set_duration_and_issuance(claims, duration.val, clock) IN
         IF ~token_claims.ok THEN Panic
         ELSE algorithm_token(token_claims.val, signer.signing_key)

\* create_header_value: the token as a header value
create_header_value(signer, claims, token_lifetime, clock) ==
    LET signed == create_signed_token(signer, claims, token_lifetime, clock) IN
    IF ~signed.ok THEN signed
    ELSE Ok(Str("", signed.val.body))

\* create_bearer_header_value: format!("Bearer {token}") on a token of the
\* access lifetime
create_bearer_header_value(signer, claims, clock) ==
    LET token == create_signed_token(signer, claims, signer.access_token_lifetime, clock) IN
    IF ~token.ok THEN token
    ELSE Ok(Str("Bearer ", token.val.body))

\* CookieBuilder::finish: the cookie of the builder, secure only when the
\* builder was told so
finish(cookie_builder) ==
    [name |-> "", value |-> "", secure |-> cookie_builder.secure = Some(TRUE)]

\* the bug of a cookie that is never marked secure
create_cookie_NotSecure(signer, claims, cookie_name, token_lifetime, clock) ==
    LET signed == create_signed_token(signer, claims, token_lifetime, clock) IN
    IF ~signed.ok THEN signed
    ELSE Ok([name |-> cookie_name, value |-> signed.val, secure |-> FALSE])

\* create_cookie: cookie_builder.clone().finish(), then set_name and set_value
create_cookie(signer, claims, cookie_name, token_lifetime, clock) ==
    LET signed == create_signed_token(signer, claims, token_lifetime, clock) IN
    IF ~signed.ok THEN signed
    ELSE Ok([finish(signer.cookie_builder) EXCEPT !.name = cookie_name,
                                                   !.value = signed.val])

create_access_cookie(signer, claims, clock) ==
    create_cookie(signer, claims, signer.access_token_name, signer.access_token_lifetime, clock)

create_refresh_cookie(signer, claims, clock) ==
    create_cookie(signer, claims, signer.refresh_token_name, signer.refresh_token_lifetime, clock)

\* make_token_update!(access_cookie) and make_token_update!(access_cookie, refresh_cookie)
make_token_update(access_cookie, refresh_cookie) ==
    Ok(Some([access_cookie |-> access_cookie, refresh_cookie |-> refresh_cookie]))

\* extract_claims_unsafe: both expect() calls panic on failure

extract_claims_unsafe(token_value) ==
    LET untrusted == UntrustedToken(token_value) IN
    IF ~untrusted.ok THEN Panic
    ELSE IF untrusted.val.payload # "ok" THEN Panic
    ELSE Ok(untrusted.val.custom)

-----------------------------------------------------------------------------
(* Authority::verify_service_request *)

\* The refresh branch after the hook has approved (authority.rs 233-255):
\* the outcome, the claims inserted into the extensions, the tokens minted
\* and the result of validate_refresh_token.
Outcome(res, e, m, r) == [result |-> res, ext |-> e, minted |-> m, ref |-> r]

RenewAccess(a, signer, refresh_token, clock, r) ==
    LET claims == refresh_token.custom
        access_cookie == create_access_cookie(signer, claims, clock)
    IN  IF ~access_cookie.ok THEN Outcome(access_cookie, None, << >>, r)
        ELSE Outcome(make_token_update(Some(access_cookie.val), None),
                     Some(claims), << access_cookie.val >>, r)

\* the bug of answering an expired refresh token with its error although
\* its renewal is turned on
RenewBoth_Refused(a, signer, rq, clock, r) == Outcome(r, None, << >>, r)

RenewBoth(a, signer, rq, clock, r) ==
    LET cookie == rq.cookies[a.refresh_token_name] IN
    IF cookie = None THEN Outcome(Panic, None, << >>, r)
    ELSE LET claims == extract_claims_unsafe(Unwrap(cookie)) IN
         IF ~claims.ok THEN Outcome(Panic, None, << >>, r)
         ELSE LET access_cookie == create_access_cookie(signer, claims.val, clock)
                  refresh_cookie == create_refresh_cookie(signer, claims.val, clock)
              IN  IF ~access_cookie.ok THEN Outcome(access_cookie, None, << >>, r)
                  ELSE IF ~refresh_cookie.ok
                  THEN Outcome(refresh_cookie, None, << access_cookie.val >>, r)
                  ELSE Outcome(make_token_update(Some(access_cookie.val),
                                                 Some(refresh_cookie.val)),
                               Some(claims.val),
                               << access_cookie.val, refresh_cookie.val >>, r)

\* the bug of asking for the signer before looking at the refresh token
RefreshBranch_SignerFirst(a, rq, clock) ==
    LET r == validate_refresh_token(a, rq, clock) IN
    IF a.token_signer = None THEN Outcome(NoTokenSigner, None, << >>, r)
    ELSE IF r.ok THEN RenewAccess(a, Unwrap(a.token_signer), r.val, clock, r)
    ELSE IF r = Expired /\ a.renew_refresh_token_automatically
    THEN RenewBoth(a, Unwrap(a.token_signer), rq, clock, r)
    ELSE Outcome(r, None, << >>, r)

\* the bug of renewing an expired refresh token whatever
\* renew_refresh_token_automatically says
RefreshBranch_AlwaysRenewsRefresh(a, rq, clock) ==
    LET r == validate_refresh_token(a, rq, clock) IN
    IF r.ok /\ a.token_signer # None
    THEN RenewAccess(a, Unwrap(a.token_signer), r.val, clock, r)
    ELSE IF ~r.ok /\ r = Expired /\ a.token_signer # None
    THEN RenewBoth(a, Unwrap(a.token_signer), rq, clock, r)
    ELSE IF r.ok THEN Outcome(NoTokenSigner, None, << >>, r)
    ELSE Outcome(r, None, << >>, r)

RefreshBranch(a, rq, clock) ==
    LET r == validate_refresh_token(a, rq, clock) IN
    IF r.ok /\ a.token_signer # None
    THEN RenewAccess(a, Unwrap(a.token_signer), r.val, clock, r)
    ELSE IF ~r.ok /\ r = Expired /\ a.token_signer # None
            /\ a.renew_refresh_token_automatically
    THEN RenewBoth(a, Unwrap(a.token_signer), rq, clock, r)
    ELSE IF r.ok THEN Outcome(NoTokenSigner, None, << >>, r)
    ELSE Outcome(r, None, << >>, r)

\* the bug of entering the refresh branch on every error
EntersRefreshBranch_AnyError(a, access) ==
    /\ ~access.ok
    /\ a.renew_access_token_automatically

\* the bug of matching TokenValidation(_) instead of TokenValidation(Expired)
EntersRefreshBranch_AnyValidationError(a, access) ==
    /\ ~access.ok
    /\ access.kind = "TokenValidation" \/ access = NoToken
    /\ a.renew_access_token_automatically

\* the bug of asking the hook only when there is a signer to renew with
EntersRefreshBranch_OnlyWithSigner(a, access) ==
    /\ ~access.ok
    /\ access = Expired \/ access = NoToken
    /\ a.renew_access_token_automatically
    /\ a.token_signer # None

\* The guard of the second match arm (authority.rs 229-230)
EntersRefreshBranch(a, access) ==
    /\ ~access.ok
    /\ access = Expired \/ access = NoToken
    /\ a.renew_access_token_automatically

-----------------------------------------------------------------------------
(* ResponseError for AuthError *)

\* status_code: by the kind of the error; the errors that wrap an
\* actix_web::Error answer with the status of the wrapped error, which the
\* model names in the detail of the error
status_code(err) ==
    CASE err.kind \in {"TokenCreation", "NoTokenSigner"} -> "500"
      [] err.kind = "TokenParse" -> "400"
      [] err.kind = "TokenValidation" -> "401"
      [] err.kind \in {"RefreshAuthorizerCall", "RefreshAuthorizerDenied"} -> err.detail
      [] err.kind = "NoToken" -> "302"

\* error_response: the status, and a Location header on the redirect
error_response(err) ==
    [status |-> status_code(err),
     location |-> IF err.kind = "NoToken" THEN Some("/login") ELSE None]

-----------------------------------------------------------------------------
(* The configurations and the requests of the model *)

\* Cookie::build("", "").secure(true), the default cookie_builder
DefaultCookieBuilder == [secure |-> Some(TRUE)]

\* TokenSigner::new()...build() with the default names, lifetimes and cookie
\* builder
TokenSigners ==
    { [access_token_name |-> AccessName, access_token_lifetime |-> AccessLifetime,
       refresh_token_name |-> RefreshName, refresh_token_lifetime |-> RefreshLifetime,
       signing_key |-> VerifyingKey, leeway |-> DefaultLeeway,
       cookie_builder |-> DefaultCookieBuilder] }

\* Authority::new()...build(): every combination of the flags, with and
\* without a token signer
Authorities ==
    [ access_token_name : {AccessName},
      renew_access_token_automatically : BOOLEAN,
      refresh_token_name : {RefreshName},
      renew_refresh_token_automatically : BOOLEAN,
      enable_header_tokens : BOOLEAN,
      enable_authorization_header : BOOLEAN,
      enable_query_tokens : BOOLEAN,
      enable_cookie_tokens : BOOLEAN,
      verifying_key : {VerifyingKey},
      leeway : {DefaultLeeway},
      token_signer : {None} \cup { Some(sg) : sg \in TokenSigners } ]

\* The token texts a client presents: well-formed tokens under the right key
\* for every claims value, expiring at second 0 or 1, and one of each kind of
\* defect: a signature of another key (on a token expiring at 0), claims that
\* do not deserialize, a missing expiration, and a text that is no token.
\* One more token is valid, but its claims cannot be serialized again, so
\* that no token can be created from them.
Expiries == {0, 1}
GoodTokens == { Jwt(c, e, VerifyingKey, "ok") : c \in Claims, e \in Expiries }
Tampered == Jwt(1, 0, "k2", "ok")
MalformedClaims == Jwt(1, 1, VerifyingKey, "malformed")
NoExpiration == Jwt(1, NoExp, VerifyingKey, "ok")
BadTokens == { Tampered, MalformedClaims, NoExpiration, Garbage }
UnserializableClaims == Jwt(Unserializable, 1, VerifyingKey, "ok")
Bodies == GoodTokens \cup BadTokens \cup {UnserializableClaims}

Slots == {"query_access", "query_refresh", "header_access", "header_refresh",
          "authorization", "cookie_access", "cookie_refresh"}

SlotValues(slot) ==
    IF slot = "authorization"
    THEN { Str("Bearer ", b) : b \in GoodTokens \cup {Garbage} }
         \cup { Str("Basic ", Garbage), Str("bearer ", Jwt(1, 1, VerifyingKey, "ok")),
                Str(NotAString, Garbage) }
    ELSE { Str("", b) : b \in Bodies }

At(f, slot) == IF slot \in DOMAIN f THEN Some(f[slot]) ELSE None

MkRequest(f) ==
    [ query |-> [n \in Names |-> IF n = AccessName THEN At(f, "query_access")
                                 ELSE At(f, "query_refresh")],
      headers |-> [n \in Names |-> IF n = AccessName THEN At(f, "header_access")
                                   ELSE At(f, "header_refresh")],
      authorization |-> At(f, "authorization"),
      cookies |-> [n \in Names |-> IF n = AccessName THEN At(f, "cookie_access")
                                   ELSE At(f, "cookie_refresh")] ]

NoRequest == MkRequest(<< >>)

\* what the re-authorization hook can answer with when it denies
HookErrors == {"401", "403"}
NotCalled == [state |-> "not_called", err |-> ""]

\* the guard of the middleware has not been asked about the request
NotAsked == "not_asked"

-----------------------------------------------------------------------------
(* State machine *)

Init ==
    /\ cfg \in Authorities
    /\ now = 0
    /\ pc = "idle"
    /\ t0 = 0
    /\ req = NoRequest
    /\ ext = None
    /\ acc = None
    /\ hook = NotCalled
    /\ ref = None
    /\ minted = << >>
    /\ result = None
    /\ inner = << >>
    /\ response = None
    /\ signing = None
    /\ builder = None
    /\ jar = None
    /\ guard = NotAsked

\* the bug of handing the request to the wrapped service whatever the result
AfterVerify_NoShortCircuit(res, e) ==
    /\ pc' = "inner"
    /\ inner' = Append(inner, e)
    /\ response' = None

\* AuthenticationMiddleware::call once verify_service_request has returned:
\* Ok hands the request to the wrapped service, Err is returned as it is.
AfterVerify(res, e) ==
    IF res.ok
    THEN /\ pc' = "inner"
         /\ inner' = Append(inner, e)
         /\ response' = None
    ELSE /\ pc' = "done"
         /\ inner' = inner
         /\ response' = Some(res)

\* A request arrives: AuthenticationMiddleware::call runs
\* verify_service_request up to its first suspension.
Call(rq) ==
    /\ pc = "idle"
    /\ req' = rq
    /\ t0' = now
    /\ LET access == validate_access_token(cfg, rq, now) IN
       /\ acc' = Some(access)
       /\ IF access.ok
          THEN /\ ext' = Some(access.val.custom)
               /\ result' = Some(Ok(None))
               /\ AfterVerify(Ok(None), Some(access.val.custom))
          ELSE IF EntersRefreshBranch(cfg, access)
          THEN /\ pc' = "args"
               /\ UNCHANGED <<ext, result, inner, response>>
          ELSE /\ ext' = ext
               /\ result' = Some(access)
               /\ AfterVerify(access, ext)
    /\ UNCHANGED <<guard, jar, builder, signing, cfg, now, hook, ref, minted>>

Receive ==
    /\ pc = "idle"
    /\ \E S \in SUBSET Slots :
          /\ Cardinality(S) <= MaxTokens
          /\ \E f \in [S -> UNION { SlotValues(sl) : sl \in Slots }] :
                /\ \A sl \in S : f[sl] \in SlotValues(sl)
                /\ Call(MkRequest(f))

\* the bug of reporting a failed extraction as a denial of the hook
FromRequestArgs_AsDenied ==
    /\ pc = "args"
    /\ \E ok \in BOOLEAN :
          IF ok
          THEN /\ pc' = "hook"
               /\ hook' = [state |-> "called", err |-> ""]
               /\ UNCHANGED <<result, inner, response>>
          ELSE LET res == Err("RefreshAuthorizerDenied", "args") IN
               /\ hook' = [state |-> "args_err", err |-> "args"]
               /\ result' = Some(res)
               /\ AfterVerify(res, ext)
    /\ UNCHANGED <<guard, jar, builder, signing, cfg, now, t0, req, ext, acc, ref, minted>>

\* the bug of renewing the tokens before the hook has been asked
FromRequestArgs_RenewsFirst ==
    /\ pc = "args"
    /\ \E ok \in BOOLEAN :
          IF ok
          THEN LET o == RefreshBranch(cfg, req, now) IN
               /\ pc' = "hook"
               /\ hook' = [state |-> "called", err |-> ""]
               /\ ext' = o.ext
               /\ minted' = o.minted
               /\ UNCHANGED <<result, inner, response>>
          ELSE LET res == Err("RefreshAuthorizerCall", "args") IN
               /\ hook' = [state |-> "args_err", err |-> "args"]
               /\ result' = Some(res)
               /\ AfterVerify(res, ext)
               /\ UNCHANGED <<ext, minted>>
    /\ UNCHANGED <<guard, jar, builder, signing, cfg, now, t0, req, acc, ref>>

\* call_refresh_authorizer: Args::from_request(req, payload).await
FromRequestArgs ==
    /\ pc = "args"
    /\ \E ok \in BOOLEAN :
          IF ok
          THEN /\ pc' = "hook"
               /\ hook' = [state |-> "called", err |-> ""]
               /\ UNCHANGED <<result, inner, response>>
          ELSE LET res == Err("RefreshAuthorizerCall", "args") IN
               /\ hook' = [state |-> "args_err", err |-> "args"]
               /\ result' = Some(res)
               /\ AfterVerify(res, ext)
    /\ UNCHANGED <<guard, jar, builder, signing, cfg, now, t0, req, ext, acc, ref, minted>>

\* the bug of dropping the hook's answer (no `?` after the await)
HookDenies_Ignored ==
    /\ pc = "hook"
    /\ \E e \in HookErrors : hook' = [state |-> "denied", err |-> e]
    /\ LET o == RefreshBranch(cfg, req, now) IN
       /\ ref' = Some(o.ref)
       /\ ext' = o.ext
       /\ minted' = o.minted
       /\ result' = Some(o.result)
       /\ AfterVerify(o.result, o.ext)
    /\ UNCHANGED <<guard, jar, builder, signing, cfg, now, t0, req, acc>>

\* the hook denies: refresh_authorizer.call(args).await is Err(e)
HookDenies ==
    /\ pc = "hook"
    /\ \E e \in HookErrors :
          LET res == Err("RefreshAuthorizerDenied", e) IN
          /\ hook' = [state |-> "denied", err |-> e]
          /\ result' = Some(res)
          /\ AfterVerify(res, ext)
    /\ UNCHANGED <<guard, jar, builder, signing, cfg, now, t0, req, ext, acc, ref, minted>>

\* the hook approves: the rest of verify_service_request runs
HookApproves ==
    /\ pc = "hook"
    /\ hook' = [state |-> "approved", err |-> ""]
    /\ LET o == RefreshBranch(cfg, req, now) IN
       /\ ref' = Some(o.ref)
       /\ ext' = o.ext
       /\ minted' = o.minted
       /\ result' = Some(o.result)
       /\ AfterVerify(o.result, o.ext)
    /\ UNCHANGED <<guard, jar, builder, signing, cfg, now, t0, req, acc>>

\* the bug of dropping a cookie that add_cookie rejects and answering anyway
AttachCookies_FailureSwallowed(update, failing) ==
    IF update = None THEN Ok(<< >>)
    ELSE LET u == Unwrap(update) IN
         Ok((IF failing = "access" THEN << >> ELSE u.access_cookie)
            \o (IF failing = "refresh" THEN << >> ELSE u.refresh_cookie))

\* add_cookie on the response of the wrapped service, for the cookies of the
\* update that are present; `failing` is the cookie add_cookie rejects.
AttachCookies(update, failing) ==
    IF update = None THEN Ok(<< >>)
    ELSE LET u == Unwrap(update) IN
         IF u.access_cookie # None /\ failing = "access" THEN Err("HttpError", "access")
         ELSE IF u.refresh_cookie # None /\ failing = "refresh" THEN Err("HttpError", "refresh")
         ELSE Ok(u.access_cookie \o u.refresh_cookie)

\* the wrapped service returns; and_then attaches the cookies of the update
ServiceReturns ==
    /\ pc = "inner"
    /\ \E served \in BOOLEAN, failing \in {"none", "access", "refresh"} :
          response' = Some(IF served THEN AttachCookies(Unwrap(result).val, failing)
                           ELSE Err("ServiceError", ""))
    /\ pc' = "done"
    /\ UNCHANGED <<guard, jar, builder, signing, cfg, now, t0, req, ext, acc, hook, ref, minted, result, inner>>

\* the response is sent and the request dropped
Finish ==
    /\ pc = "done"
    /\ pc' = "idle"
    /\ t0' = 0
    /\ req' = NoRequest
    /\ ext' = None
    /\ acc' = None
    /\ hook' = NotCalled
    /\ ref' = None
    /\ minted' = << >>
    /\ result' = None
    /\ inner' = << >>
    /\ response' = None
    /\ guard' = NotAsked
    /\ UNCHANGED <<jar, builder, signing, cfg, now>>

\* time passes between requests and while the request is suspended in the hook
Tick ==
    /\ pc \in {"idle", "args", "hook"}
    /\ now < MaxTime
    /\ now' = now + 1
    /\ UNCHANGED <<guard, jar, builder, signing, cfg, pc, t0, req, ext, acc, hook, ref, minted, result, inner, response>>

Next ==
    \/ Receive
    \/ FromRequestArgs
    \/ HookDenies
    \/ HookApproves
    \/ ServiceReturns
    \/ Finish
    \/ Tick

Spec == Init /\ [][Next]_vars

-----------------------------------------------------------------------------
(* The token codec on its own: a TokenSigner signs a token, the token may   *)
(* be damaged on its way, and validate_jwt reads it under the time options  *)
(* of the Authority.  cfg is the Authority, now the clock, t0 the clock at  *)
(* issuance, minted the token as it stands, acc the outcome of validate_jwt *)
(* at the present clock reading.                                            *)

MaxClock == MaxLifetime + MaxLeeway + TicksPerSecond

\* Authorities with the default sources, a token signer, and time options
\* of every leeway
CodecAuthorities ==
    { a \in [ access_token_name : {AccessName},
              renew_access_token_automatically : {TRUE},
              refresh_token_name : {RefreshName},
              renew_refresh_token_automatically : {FALSE},
              enable_header_tokens : {FALSE},
              enable_authorization_header : {FALSE},
              enable_query_tokens : {FALSE},
              enable_cookie_tokens : {TRUE},
              verifying_key : {VerifyingKey},
              leeway : 0..MaxLeeway,
              token_signer : { Some([sg EXCEPT !.leeway = w]) :
                                   sg \in TokenSigners, w \in 0..MaxLeeway } ] :
        Unwrap(a.token_signer).leeway = a.leeway }

CodecInit ==
    /\ cfg \in CodecAuthorities
    /\ now \in 0..1
    /\ pc = "idle"
    /\ t0 = 0
    /\ req = NoRequest
    /\ ext = None
    /\ acc = None
    /\ hook = NotCalled
    /\ ref = None
    /\ minted = << >>
    /\ result = None
    /\ inner = << >>
    /\ response = None
    /\ signing = None
    /\ builder = None
    /\ jar = None
    /\ guard = NotAsked

\* TokenSigner::create_signed_token(claims, token_lifetime)
Sign ==
    /\ minted = << >>
    /\ \E claims \in Claims, token_lifetime \in 0..MaxLifetime :
          LET token == create_signed_token(Unwrap(cfg.token_signer), claims,
                                           token_lifetime, now) IN
          /\ token.ok
          /\ minted' = << token.val >>
          /\ signing' = Some([claims |-> claims, token_lifetime |-> token_lifetime])
    /\ t0' = now
    /\ UNCHANGED <<guard, jar, builder, cfg, now, pc, req, ext, acc, hook, ref, result, inner, response>>

\* a byte of the signature segment is flipped
FlipSignatureByte ==
    /\ minted # << >>
    /\ minted[1].body.key = VerifyingKey
    /\ minted' = << [minted[1] EXCEPT !.body.key = "k2"] >>
    /\ acc' = None
    /\ UNCHANGED <<guard, jar, builder, signing, cfg, now, pc, t0, req, ext, hook, ref, result, inner, response>>

\* a byte that is no base64url is put in front of the token
BreakEncoding ==
    /\ minted # << >>
    /\ minted[1].prefix = ""
    /\ minted' = << [minted[1] EXCEPT !.prefix = "~"] >>
    /\ acc' = None
    /\ UNCHANGED <<guard, jar, builder, signing, cfg, now, pc, t0, req, ext, hook, ref, result, inner, response>>

\* validate_jwt(token, algorithm, verifying_key, time_options)
ValidateJwt ==
    /\ minted # << >>
    /\ acc' = Some(validate_jwt(minted[1], cfg.verifying_key, cfg.leeway, now))
    /\ UNCHANGED <<guard, jar, builder, signing, cfg, now, pc, t0, req, ext, hook, ref, minted, result, inner, response>>

\* the clock advances; the outcome of the last validation is of the past
ClockAdvances ==
    /\ now < t0 + MaxClock
    /\ now' = now + 1
    /\ acc' = None
    /\ UNCHANGED <<guard, jar, builder, signing, cfg, pc, t0, req, ext, hook, ref, minted, result, inner, response>>

CodecNext ==
    \/ Sign
    \/ FlipSignatureByte
    \/ BreakEncoding
    \/ ValidateJwt
    \/ ClockAdvances

CodecSpec == CodecInit /\ [][CodecNext]_vars

-----------------------------------------------------------------------------
(* The AuthorityBuilder on its own (derive_builder, pattern = "owned"):     *)
(* every field of the builder is None until its setter is called; build()   *)
(* takes the fields in the order of the struct.  builder is the builder,    *)
(* cfg the outcome of build() once it was called.                           *)

Algorithm == "Ed25519"

\* the token signers that may be attached: one with the default names, one
\* with names of its own
BuilderTokenSigners ==
    { [access_token_name |-> n[1], access_token_lifetime |-> AccessLifetime,
       refresh_token_name |-> n[2], refresh_token_lifetime |-> RefreshLifetime,
       signing_key |-> VerifyingKey, leeway |-> DefaultLeeway, algorithm |-> Algorithm] :
      n \in { << AccessName, RefreshName >>, << "jwt", "jwt_refresh" >> } }

\* the names a caller may give to the Authority
BuilderNames == {AccessName, RefreshName, "session"}

BoolFields == {"renew_access_token_automatically", "renew_refresh_token_automatically",
               "enable_header_tokens", "enable_authorization_header",
               "enable_query_tokens", "enable_cookie_tokens"}

\* AuthorityBuilder::default()
AuthorityBuilder_default ==
    [ refresh_authorizer |-> None,
      access_token_name |-> None,
      renew_access_token_automatically |-> None,
      refresh_token_name |-> None,
      renew_refresh_token_automatically |-> None,
      enable_header_tokens |-> None,
      enable_authorization_header |-> None,
      enable_query_tokens |-> None,
      enable_cookie_tokens |-> None,
      verifying_key |-> None,
      algorithm |-> None,
      time_options |-> None,
      token_signer |-> None ]

UninitializedFieldError(field_name) == Err("UninitializedField", field_name)

\* the bug of never taking a field from the token signer
pull_from_token_signer_NeverPulls(b, field_name) ==
    UninitializedFieldError(field_name)

\* pull_from_token_signer!(self, field): the field of the attached signer, or
\* the uninitialized-field error
pull_from_token_signer(b, field_name) ==
    IF b.token_signer # None /\ Unwrap(b.token_signer) # None
    THEN Ok(Unwrap(Unwrap(b.token_signer))[field_name])
    ELSE UninitializedFieldError(field_name)

\* pull_from_token_signer!(self, field, alternative)
pull_from_token_signer_or(b, field_name, alternative) ==
    IF b.token_signer # None /\ Unwrap(b.token_signer) # None
    THEN Unwrap(Unwrap(b.token_signer))[field_name]
    ELSE alternative

\* a field with #[builder(default = ...)]: the value set, or the default
FieldOr(b, field_name, default) ==
    IF b[field_name] # None THEN Unwrap(b[field_name]) ELSE default

\* AuthorityBuilder::build
build(b) ==
    LET algorithm == IF b.algorithm # None THEN Ok(Unwrap(b.algorithm))
                     ELSE pull_from_token_signer(b, "algorithm")
        time_options == IF b.time_options # None THEN Ok(Unwrap(b.time_options))
                        ELSE pull_from_token_signer(b, "leeway")
    IN  IF b.refresh_authorizer = None THEN UninitializedFieldError("refresh_authorizer")
        ELSE IF b.verifying_key = None THEN UninitializedFieldError("verifying_key")
        ELSE IF ~algorithm.ok THEN UninitializedFieldError("algorithm")
        ELSE IF ~time_options.ok THEN UninitializedFieldError("time_options")
        ELSE Ok([ access_token_name |->
                      FieldOr(b, "access_token_name",
                              pull_from_token_signer_or(b, "access_token_name", "access_token")),
                  renew_access_token_automatically |->
                      FieldOr(b, "renew_access_token_automatically", TRUE),
                  refresh_token_name |->
                      FieldOr(b, "refresh_token_name",
                              pull_from_token_signer_or(b, "refresh_token_name", "refresh_token")),
                  renew_refresh_token_automatically |->
                      FieldOr(b, "renew_refresh_token_automatically", FALSE),
                  enable_header_tokens |-> FieldOr(b, "enable_header_tokens", FALSE),
                  enable_authorization_header |->
                      FieldOr(b, "enable_authorization_header", FALSE),
                  enable_query_tokens |-> FieldOr(b, "enable_query_tokens", FALSE),
                  enable_cookie_tokens |-> FieldOr(b, "enable_cookie_tokens", TRUE),
                  verifying_key |-> Unwrap(b.verifying_key),
                  algorithm |-> algorithm.val,
                  leeway |-> time_options.val,
                  token_signer |-> FieldOr(b, "token_signer", None) ])

\* Authority::new()
BuilderInit ==
    /\ builder = Some(AuthorityBuilder_default)
    /\ jar = None
    /\ guard = NotAsked
    /\ cfg = None
    /\ now = 0
    /\ pc = "idle"
    /\ t0 = 0
    /\ req = NoRequest
    /\ ext = None
    /\ acc = None
    /\ hook = NotCalled
    /\ ref = None
    /\ minted = << >>
    /\ result = None
    /\ inner = << >>
    /\ response = None
    /\ signing = None

BuilderUnchanged ==
    UNCHANGED <<now, pc, t0, req, ext, acc, hook, ref, minted, result, inner, response,
                signing, jar, guard>>

\* a setter of the builder
Setter(field_name, value) ==
    /\ builder' = Some([Unwrap(builder) EXCEPT ![field_name] = Some(value)])
    /\ cfg' = cfg
    /\ BuilderUnchanged

SetRefreshAuthorizer ==
    /\ cfg = None
    /\ Setter("refresh_authorizer", "hook")

SetVerifyingKey ==
    /\ cfg = None
    /\ Setter("verifying_key", VerifyingKey)

SetAlgorithm ==
    /\ cfg = None
    /\ Setter("algorithm", Algorithm)

SetTimeOptions ==
    /\ cfg = None
    /\ Setter("time_options", DefaultLeeway)

SetTokenSigner ==
    /\ cfg = None
    /\ \E signer \in {None} \cup { Some(sg) : sg \in BuilderTokenSigners } :
          Setter("token_signer", signer)

SetAccessTokenName ==
    /\ cfg = None
    /\ \E name \in BuilderNames : Setter("access_token_name", name)

SetRefreshTokenName ==
    /\ cfg = None
    /\ \E name \in BuilderNames : Setter("refresh_token_name", name)

\* the setter of a boolean field
SetFlag ==
    /\ cfg = None
    /\ \E field_name \in BoolFields, value \in BOOLEAN :
          /\ \/ Unwrap(builder)[field_name] # None
             \/ Cardinality({ f \in BoolFields : Unwrap(builder)[f] # None }) < MaxFlagsSet
          /\ Setter(field_name, value)

Build ==
    /\ cfg = None
    /\ cfg' = Some(build(Unwrap(builder)))
    /\ builder' = builder
    /\ BuilderUnchanged

BuilderNext ==
    \/ SetRefreshAuthorizer
    \/ SetVerifyingKey
    \/ SetAlgorithm
    \/ SetTimeOptions
    \/ SetTokenSigner
    \/ SetAccessTokenName
    \/ SetRefreshTokenName
    \/ SetFlag
    \/ Build

BuilderSpec == BuilderInit /\ [][BuilderNext]_vars

-----------------------------------------------------------------------------
(* The TokenSigner on its own: cfg is the signer, now its clock.  signing   *)
(* is the call made last with its arguments, t0 the clock reading of that   *)
(* call, result what the call returned.                                     *)

\* a cookie_builder without a word on secure, the default one, and one that
\* turns secure off
CookieBuilders == { [secure |-> s] : s \in {None, Some(TRUE), Some(FALSE)} }

\* the lifetimes of the model: half a second, one and two seconds, and the
\* largest value of each time type
Durations == {1, AccessLifetime, RefreshLifetime, DateTimeMAX, TimeDeltaMAX, DurationMAX}

\* TokenSigner::new()...build(): names, lifetimes and cookie builder as the
\* caller sets them
SignerConfigs ==
    [ access_token_name : {AccessName, "jwt"},
      access_token_lifetime : {1, AccessLifetime, DurationMAX},
      refresh_token_name : {RefreshName},
      refresh_token_lifetime : {RefreshLifetime},
      signing_key : {VerifyingKey},
      leeway : {DefaultLeeway},
      cookie_builder : CookieBuilders ]

\* the claims a caller passes
SignerClaims == Claims \cup {Unserializable}

SignerInit ==
    /\ cfg \in SignerConfigs
    /\ now = 0
    /\ pc = "idle"
    /\ t0 = 0
    /\ req = NoRequest
    /\ ext = None
    /\ acc = None
    /\ hook = NotCalled
    /\ ref = None
    /\ minted = << >>
    /\ result = None
    /\ inner = << >>
    /\ response = None
    /\ signing = None
    /\ builder = None
    /\ jar = None
    /\ guard = NotAsked

SignerUnchanged ==
    UNCHANGED <<cfg, now, pc, req, ext, acc, hook, ref, minted, inner, response, builder,
                jar, guard>>

\* the call and its arguments, as the caller made it
SignerCall(op, claims, cookie_name, token_lifetime) ==
    [op |-> op, claims |-> claims, cookie_name |-> cookie_name,
     token_lifetime |-> token_lifetime]

CreateSignedToken ==
    /\ \E claims \in SignerClaims, token_lifetime \in Durations :
          /\ result' = Some(create_signed_token(cfg, claims, token_lifetime, now))
          /\ signing' = Some(SignerCall("create_signed_token", claims, "", token_lifetime))
    /\ t0' = now
    /\ SignerUnchanged

CreateHeaderValue ==
    /\ \E claims \in SignerClaims, token_lifetime \in Durations :
          /\ result' = Some(create_header_value(cfg, claims, token_lifetime, now))
          /\ signing' = Some(SignerCall("create_header_value", claims, "", token_lifetime))
    /\ t0' = now
    /\ SignerUnchanged

CreateBearerHeaderValue ==
    /\ \E claims \in SignerClaims :
          /\ result' = Some(create_bearer_header_value(cfg, claims, now))
          /\ signing' = Some(SignerCall("create_bearer_header_value", claims, "",
                                  cfg.access_token_lifetime))
    /\ t0' = now
    /\ SignerUnchanged

CreateCookie ==
    /\ \E claims \in SignerClaims, cookie_name \in Names, token_lifetime \in Durations :
          /\ result' = Some(create_cookie(cfg, claims, cookie_name, token_lifetime, now))
          /\ signing' = Some(SignerCall("create_cookie", claims, cookie_name, token_lifetime))
    /\ t0' = now
    /\ SignerUnchanged

CreateAccessCookie ==
    /\ \E claims \in SignerClaims :
          /\ result' = Some(create_access_cookie(cfg, claims, now))
          /\ signing' = Some(SignerCall("create_access_cookie", claims, cfg.access_token_name,
                                  cfg.access_token_lifetime))
    /\ t0' = now
    /\ SignerUnchanged

CreateRefreshCookie ==
    /\ \E claims \in SignerClaims :
          /\ result' = Some(create_refresh_cookie(cfg, claims, now))
          /\ signing' = Some(SignerCall("create_refresh_cookie", claims, cfg.refresh_token_name,
                                  cfg.refresh_token_lifetime))
    /\ t0' = now
    /\ SignerUnchanged

\* the clock of the time options advances
SignerClock ==
    /\ now < MaxClock
    /\ now' = now + 1
    /\ UNCHANGED <<cfg, pc, t0, req, ext, acc, hook, ref, minted, result, inner, response,
                   signing, builder, jar, guard>>

SignerNext ==
    \/ CreateSignedToken
    \/ CreateHeaderValue
    \/ CreateBearerHeaderValue
    \/ CreateCookie
    \/ CreateAccessCookie
    \/ CreateRefreshCookie
    \/ SignerClock

SignerSpec == SignerInit /\ [][SignerNext]_vars

-----------------------------------------------------------------------------
(* Requests in flight at once: every worker task runs                        *)
(* AuthenticationMiddleware::call on a request of its own against the one   *)
(* Authority behind the Rc.  cfg and the clock now are shared; pc, req, ext, *)
(* acc, hook, result and response hold one entry for each task; t0 holds the *)
(* clock readings of the task, on arrival and on resumption after the hook.  *)

Tasks == 1..NumTasks

\* Authorities that read cookies only, with every combination of the renewal
\* flags, with and without a token signer
TaskAuthorities ==
    { a \in Authorities : /\ a.enable_cookie_tokens
                          /\ ~a.enable_header_tokens
                          /\ ~a.enable_authorization_header
                          /\ ~a.enable_query_tokens }

\* the requests of the tasks: an access cookie that is valid until the first
\* tick, or none; a refresh cookie of either expiry, or none
TaskRequests ==
    { MkRequest(f) :
        f \in UNION { [S -> { Str("", b) : b \in GoodTokens }] :
                        S \in SUBSET {"cookie_access", "cookie_refresh"} } }

\* the request a task owns: verify_service_request takes it by value
RequestOf_Shared(i) == req[1]

RequestOf(i) == req[i]

TaskInit ==
    /\ cfg \in TaskAuthorities
    /\ now = 0
    /\ pc = [i \in Tasks |-> "idle"]
    /\ t0 = [i \in Tasks |-> [arrival |-> 0, resumption |-> 0]]
    /\ req = [i \in Tasks |-> NoRequest]
    /\ ext = [i \in Tasks |-> None]
    /\ acc = [i \in Tasks |-> None]
    /\ hook = [i \in Tasks |-> NotCalled]
    /\ result = [i \in Tasks |-> None]
    /\ response = [i \in Tasks |-> None]
    /\ ref = None
    /\ minted = << >>
    /\ inner = << >>
    /\ signing = None
    /\ builder = None
    /\ jar = None
    /\ guard = NotAsked

TaskUnchanged == UNCHANGED <<cfg, now, ref, minted, inner, signing, builder, jar, guard>>

\* AuthenticationMiddleware::call of task i once verify_service_request has
\* returned
TaskAfterVerify(i, res) ==
    /\ result' = [result EXCEPT ![i] = Some(res)]
    /\ IF res.ok
       THEN /\ pc' = [pc EXCEPT ![i] = "inner"]
            /\ response' = response
       ELSE /\ pc' = [pc EXCEPT ![i] = "done"]
            /\ response' = [response EXCEPT ![i] = Some(res)]

\* a request arrives at task i: verify_service_request up to its first
\* suspension
TaskReceive(i) ==
    /\ pc[i] = "idle"
    /\ \E rq \in TaskRequests :
          /\ req' = [req EXCEPT ![i] = rq]
          /\ LET access == validate_access_token(cfg, rq, now) IN
             /\ acc' = [acc EXCEPT ![i] = Some(access)]
             /\ IF access.ok
                THEN /\ ext' = [ext EXCEPT ![i] = Some(access.val.custom)]
                     /\ TaskAfterVerify(i, Ok(None))
                ELSE IF EntersRefreshBranch(cfg, access)
                THEN /\ pc' = [pc EXCEPT ![i] = "args"]
                     /\ UNCHANGED <<ext, result, response>>
                ELSE /\ ext' = ext
                     /\ TaskAfterVerify(i, access)
    /\ t0' = [t0 EXCEPT ![i] = [arrival |-> now, resumption |-> now]]
    /\ hook' = hook
    /\ TaskUnchanged

\* call_refresh_authorizer of task i: Args::from_request(req, payload).await
TaskFromRequestArgs(i) ==
    /\ pc[i] = "args"
    /\ \E ok \in BOOLEAN :
          IF ok
          THEN /\ pc' = [pc EXCEPT ![i] = "hook"]
               /\ hook' = [hook EXCEPT ![i] = [state |-> "called", err |-> ""]]
               /\ UNCHANGED <<result, response>>
          ELSE /\ hook' = [hook EXCEPT ![i] = [state |-> "args_err", err |-> "args"]]
               /\ TaskAfterVerify(i, Err("RefreshAuthorizerCall", "args"))
    /\ UNCHANGED <<t0, req, ext, acc>>
    /\ TaskUnchanged

\* the hook of task i denies
TaskHookDenies(i) ==
    /\ pc[i] = "hook"
    /\ \E e \in HookErrors :
          /\ hook' = [hook EXCEPT ![i] = [state |-> "denied", err |-> e]]
          /\ TaskAfterVerify(i, Err("RefreshAuthorizerDenied", e))
    /\ UNCHANGED <<t0, req, ext, acc>>
    /\ TaskUnchanged

\* the hook of task i approves: the rest of verify_service_request runs on
\* the request of the task
TaskHookApproves(i) ==
    /\ pc[i] = "hook"
    /\ hook' = [hook EXCEPT ![i] = [state |-> "approved", err |-> ""]]
    /\ LET o == RefreshBranch(cfg, RequestOf(i), now) IN
       /\ ext' = [ext EXCEPT ![i] = o.ext]
       /\ TaskAfterVerify(i, o.result)
    /\ t0' = [t0 EXCEPT ![i].resumption = now]
    /\ UNCHANGED <<req, acc>>
    /\ TaskUnchanged

\* the wrapped service of task i returns; the cookies of the update are
\* attached to its response
TaskServiceReturns(i) ==
    /\ pc[i] = "inner"
    /\ \E served \in BOOLEAN :
          response' = [response EXCEPT ![i] =
                          Some(IF served THEN AttachCookies(Unwrap(result[i]).val, "none")
                               ELSE Err("ServiceError", ""))]
    /\ pc' = [pc EXCEPT ![i] = "done"]
    /\ UNCHANGED <<t0, req, ext, acc, hook, result>>
    /\ TaskUnchanged

\* the response of task i is sent and its request dropped
TaskFinish(i) ==
    /\ pc[i] = "done"
    /\ pc' = [pc EXCEPT ![i] = "idle"]
    /\ t0' = [t0 EXCEPT ![i] = [arrival |-> 0, resumption |-> 0]]
    /\ req' = [req EXCEPT ![i] = NoRequest]
    /\ ext' = [ext EXCEPT ![i] = None]
    /\ acc' = [acc EXCEPT ![i] = None]
    /\ hook' = [hook EXCEPT ![i] = NotCalled]
    /\ result' = [result EXCEPT ![i] = None]
    /\ response' = [response EXCEPT ![i] = None]
    /\ TaskUnchanged

\* time passes, whatever the tasks are doing
TaskTick ==
    /\ now < MaxTime
    /\ now' = now + 1
    /\ UNCHANGED <<cfg, pc, t0, req, ext, acc, hook, ref, minted, result, inner, response,
                   signing, builder, jar, guard>>

TaskNext ==
    \/ \E i \in Tasks : TaskReceive(i)
    \/ \E i \in Tasks : TaskFromRequestArgs(i)
    \/ \E i \in Tasks : TaskHookDenies(i)
    \/ \E i \in Tasks : TaskHookApproves(i)
    \/ \E i \in Tasks : TaskServiceReturns(i)
    \/ \E i \in Tasks : TaskFinish(i)
    \/ TaskTick

TaskSpec == TaskInit /\ [][TaskNext]_vars

-----------------------------------------------------------------------------
(* A session: one client sends request after request, each with the cookies *)
(* of its jar, and puts the cookies of every answer it gets into the jar.   *)
(* Both renewals are on, a token signer is attached, cookies are read and    *)
(* the hook approves whenever it is asked.  Any time may pass between two   *)
(* requests.                                                                *)

\* the clock of a session runs over several lifetimes of the refresh token
MaxSessionTime == 3 * RefreshLifetime

\* the signer with the default names, and those that name their access or
\* their refresh token in their own way
SessionSigners ==
    { [sg EXCEPT !.access_token_name = m, !.refresh_token_name = n] :
        sg \in TokenSigners, m \in {AccessName, "jwt_access"},
        n \in {RefreshName, "jwt_refresh"} }

\* the cookie names a client may hold
SessionNames ==
    Names \cup { sg.access_token_name : sg \in SessionSigners }
          \cup { sg.refresh_token_name : sg \in SessionSigners }

\* Authorities with both renewals on and cookies read, to which one of the
\* signers was attached; their token names are those of Authorities, which
\* for the signers with names of their own means that access_token_name or
\* refresh_token_name was set on the builder
SessionAuthorities ==
    { [a EXCEPT !.token_signer = Some(sg)] :
        a \in { b \in Authorities : /\ b.renew_access_token_automatically
                                    /\ b.renew_refresh_token_automatically
                                    /\ b.token_signer # None
                                    /\ b.enable_cookie_tokens },
        sg \in SessionSigners }

\* the cookies in the jar after an answer with the cookies cs
Store(cookies, cs) ==
    [n \in SessionNames |->
        IF \E k \in 1..Len(cs) : cs[k].name = n
        THEN Some(cs[CHOOSE k \in 1..Len(cs) : cs[k].name = n].value)
        ELSE cookies[n]]

\* the client has logged in: it holds an access and a refresh cookie the
\* signer of the Authority created for its claims
SessionInit ==
    /\ cfg \in SessionAuthorities
    /\ now = 0
    /\ \E claims \in Claims :
          jar = Store([n \in SessionNames |-> None],
                      << create_access_cookie(Unwrap(cfg.token_signer), claims, 0).val,
                         create_refresh_cookie(Unwrap(cfg.token_signer), claims, 0).val >>)
    /\ pc = "idle"
    /\ t0 = 0
    /\ req = NoRequest
    /\ ext = None
    /\ acc = None
    /\ hook = NotCalled
    /\ ref = None
    /\ minted = << >>
    /\ result = None
    /\ inner = << >>
    /\ response = None
    /\ signing = None
    /\ builder = None
    /\ guard = NotAsked

\* the client sends a request with the cookies of its jar; the request of
\* the model carries those under the names an Authority may look up
SessionRequest ==
    /\ pc = "idle"
    /\ Call([NoRequest EXCEPT !.cookies = [n \in Names |-> jar[n]]])

\* the arguments of the hook are extracted
SessionFromRequestArgs ==
    /\ pc = "args"
    /\ pc' = "hook"
    /\ hook' = [state |-> "called", err |-> ""]
    /\ UNCHANGED <<guard, jar, builder, signing, cfg, now, t0, req, ext, acc, ref, minted, result,
                   inner, response>>

\* the wrapped service returns; the client stores the cookies of an answer
\* that reaches it
SessionServiceReturns ==
    /\ pc = "inner"
    /\ \E served \in BOOLEAN, failing \in {"none", "access", "refresh"} :
          LET answer == IF served THEN AttachCookies(Unwrap(result).val, failing)
                        ELSE Err("ServiceError", "")
          IN  /\ response' = Some(answer)
              /\ jar' = IF answer.ok THEN Store(jar, answer.val) ELSE jar
    /\ pc' = "done"
    /\ UNCHANGED <<guard, builder, signing, cfg, now, t0, req, ext, acc, hook, ref, minted, result,
                   inner>>

\* time passes between requests and while a request is suspended in the hook
SessionTick ==
    /\ pc \in {"idle", "args", "hook"}
    /\ now < MaxSessionTime
    /\ now' = now + 1
    /\ UNCHANGED <<guard, jar, builder, signing, cfg, pc, t0, req, ext, acc, hook, ref, minted,
                   result, inner, response>>

SessionNext ==
    \/ SessionRequest
    \/ SessionFromRequestArgs
    \/ HookApproves
    \/ SessionServiceReturns
    \/ Finish
    \/ SessionTick

SessionSpec == SessionInit /\ [][SessionNext]_vars

\* every request that was sent is processed to its end
SessionFairSpec ==
    /\ SessionSpec
    /\ WF_vars(SessionRequest)
    /\ WF_vars(SessionFromRequestArgs)
    /\ WF_vars(HookApproves)
    /\ WF_vars(SessionServiceReturns)
    /\ WF_vars(Finish)

-----------------------------------------------------------------------------
(* BoundedSpec: the session of one client of an Authority that renews      *)
(* access tokens at most: renew_refresh_token_automatically is off.  The   *)
(* time options of the Authority have any leeway, and the hook approves or *)
(* denies as it likes.                                                     *)

BoundedAuthorities ==
    { [a EXCEPT !.token_signer = Some(sg), !.leeway = l] :
        a \in { b \in Authorities : /\ ~b.renew_refresh_token_automatically
                                    /\ b.token_signer # None
                                    /\ b.enable_cookie_tokens },
        sg \in SessionSigners, l \in 0..MaxLeeway }

\* the client has logged in at clock reading 0
BoundedInit ==
    /\ cfg \in BoundedAuthorities
    /\ now = 0
    /\ \E claims \in Claims :
          jar = Store([n \in SessionNames |-> None],
                      << create_access_cookie(Unwrap(cfg.token_signer), claims, 0).val,
                         create_refresh_cookie(Unwrap(cfg.token_signer), claims, 0).val >>)
    /\ pc = "idle"
    /\ t0 = 0
    /\ req = NoRequest
    /\ ext = None
    /\ acc = None
    /\ hook = NotCalled
    /\ ref = None
    /\ minted = << >>
    /\ result = None
    /\ inner = << >>
    /\ response = None
    /\ signing = None
    /\ builder = None
    /\ guard = NotAsked

BoundedNext ==
    \/ SessionRequest
    \/ SessionFromRequestArgs
    \/ HookApproves
    \/ HookDenies
    \/ SessionServiceReturns
    \/ Finish
    \/ SessionTick

BoundedSpec == BoundedInit /\ [][BoundedNext]_vars

-----------------------------------------------------------------------------
(* GuardSpec: AuthenticationMiddleware::call of src/src/middleware.rs.  The *)
(* request is verified, then the arguments of the guard are extracted from  *)
(* it, then the guard is called, and the wrapped service only after the     *)
(* guard returned true.                                                     *)

Unauthorized == Err("Unauthorized", "")

\* the error of Args::from_request for the arguments of the guard
GuardArgsError == Err("FromRequest", "guard")

\* the match on inner.verify_service_request(req).await: Ok goes on to the
\* arguments of the guard, Err is returned as it is
GuardAfterVerify(res) ==
    /\ inner' = inner
    /\ guard' = guard
    /\ IF res.ok
       THEN /\ pc' = "guard_args"
            /\ response' = None
       ELSE /\ pc' = "done"
            /\ response' = Some(res)

\* inner.verify_service_request(req).await, from the arrival of the request
\* to its result: the hook, when it is asked, fails in the extraction of its
\* arguments, denies or approves
GuardCall(rq) ==
    /\ pc = "idle"
    /\ req' = rq
    /\ t0' = now
    /\ LET access == validate_access_token(cfg, rq, now) IN
       /\ acc' = Some(access)
       /\ IF access.ok
          THEN /\ ext' = Some(access.val.custom)
               /\ result' = Some(Ok(None))
               /\ GuardAfterVerify(Ok(None))
               /\ UNCHANGED <<hook, ref, minted>>
          ELSE IF EntersRefreshBranch(cfg, access)
          THEN \/ LET res == Err("RefreshAuthorizerCall", "args") IN
                  /\ hook' = [state |-> "args_err", err |-> "args"]
                  /\ result' = Some(res)
                  /\ GuardAfterVerify(res)
                  /\ UNCHANGED <<ext, ref, minted>>
               \/ \E e \in HookErrors :
                     LET res == Err("RefreshAuthorizerDenied", e) IN
                     /\ hook' = [state |-> "denied", err |-> e]
                     /\ result' = Some(res)
                     /\ GuardAfterVerify(res)
                     /\ UNCHANGED <<ext, ref, minted>>
               \/ LET o == RefreshBranch(cfg, rq, now) IN
                  /\ hook' = [state |-> "approved", err |-> ""]
                  /\ ref' = Some(o.ref)
                  /\ ext' = o.ext
                  /\ minted' = o.minted
                  /\ result' = Some(o.result)
                  /\ GuardAfterVerify(o.result)
          ELSE /\ result' = Some(access)
               /\ GuardAfterVerify(access)
               /\ UNCHANGED <<ext, hook, ref, minted>>
    /\ UNCHANGED <<jar, builder, signing, cfg, now>>

GuardReceive ==
    /\ pc = "idle"
    /\ \E S \in SUBSET Slots :
          /\ Cardinality(S) <= MaxTokens
          /\ \E f \in [S -> UNION { SlotValues(sl) : sl \in Slots }] :
                /\ \A sl \in S : f[sl] \in SlotValues(sl)
                /\ GuardCall(MkRequest(f))

\* Args::from_request(&mut_req, &mut payload).await for the guard: Ok goes on
\* to the guard, Err(err) => Err(err.into())
GuardFromRequestArgs ==
    /\ pc = "guard_args"
    /\ \E ok \in BOOLEAN :
          IF ok
          THEN /\ pc' = "guard"
               /\ guard' = "asked"
               /\ response' = response
          ELSE /\ pc' = "done"
               /\ guard' = "args_err"
               /\ response' = Some(GuardArgsError)
    /\ UNCHANGED <<jar, builder, signing, cfg, now, t0, req, ext, acc, hook, ref, minted,
                   result, inner>>

\* the bug of handing the request on whatever the guard says
GuardReturns_Ignored ==
    /\ pc = "guard"
    /\ \E allowed \in BOOLEAN :
          /\ guard' = IF allowed THEN "true" ELSE "false"
          /\ pc' = "inner"
          /\ inner' = Append(inner, ext)
          /\ UNCHANGED <<ext, response>>
    /\ UNCHANGED <<jar, builder, signing, cfg, now, t0, req, acc, hook, ref, minted, result>>

\* guard.call(args).await == true: the wrapped service is called; otherwise
\* the claims are removed from the extensions and Unauthorized is returned
GuardReturns ==
    /\ pc = "guard"
    /\ \E allowed \in BOOLEAN :
          IF allowed
          THEN /\ guard' = "true"
               /\ pc' = "inner"
               /\ inner' = Append(inner, ext)
               /\ UNCHANGED <<ext, response>>
          ELSE /\ guard' = "false"
               /\ pc' = "done"
               /\ ext' = None
               /\ response' = Some(Unauthorized)
               /\ inner' = inner
    /\ UNCHANGED <<jar, builder, signing, cfg, now, t0, req, acc, hook, ref, minted, result>>

GuardNext ==
    \/ GuardReceive
    \/ GuardFromRequestArgs
    \/ GuardReturns
    \/ ServiceReturns
    \/ Finish
    \/ Tick

GuardSpec == Init /\ [][GuardNext]_vars

-----------------------------------------------------------------------------
(* RestSpec: the RestAuthority of src/src/rest_authority.rs.  It has the    *)
(* two token names, a verifying key and time options, reads the tokens      *)
(* from the headers of these names, and renews nothing.                     *)

\* RestAuthority::new()...build(), under time options of every leeway
RestAuthorities ==
    [ access_token_name : {AccessName},
      refresh_token_name : {RefreshName},
      verifying_key : {VerifyingKey},
      leeway : 0..MaxLeeway ]

\* RestAuthority::validate_token: header_value.to_str() failing runs into
\* todo!(), which panics
RestAuthority_validate_token(a, r, clock, header_key) ==
    IF r.headers[header_key] = None THEN NoToken
    ELSE IF ~to_str(Unwrap(r.headers[header_key])).ok THEN Panic
    ELSE validate_jwt(Unwrap(r.headers[header_key]), a.verifying_key, a.leeway, clock)

\* RestAuthority::verify_service_request: the result and the claims inserted
RestAuthority_verify_service_request(a, r, clock) ==
    LET access == RestAuthority_validate_token(a, r, clock, a.access_token_name) IN
    IF access.ok
    THEN [result |-> Ok(None), ext |-> Some(access.val.custom), acc |-> access,
          ref |-> None]
    ELSE IF access = Expired \/ access = NoToken
    THEN LET refresh == RestAuthority_validate_token(a, r, clock, a.refresh_token_name)
         IN  IF refresh.ok
             THEN [result |-> Ok(None), ext |-> Some(refresh.val.custom),
                   acc |-> access, ref |-> Some(refresh)]
             ELSE [result |-> refresh, ext |-> None, acc |-> access,
                   ref |-> Some(refresh)]
    ELSE [result |-> access, ext |-> None, acc |-> access, ref |-> None]

\* the values of a header: the token texts, and bytes that are no string
HeaderValues == { Str("", b) : b \in Bodies } \cup { Str(NotAString, Garbage) }

\* requests that carry tokens in the headers of the two names only
HeaderRequests ==
    { [NoRequest EXCEPT !.headers = h] : h \in [Names -> {None} \cup
                                                  { Some(v) : v \in HeaderValues }] }

RestInit ==
    /\ cfg \in RestAuthorities
    /\ now = 0
    /\ pc = "idle"
    /\ t0 = 0
    /\ req = NoRequest
    /\ ext = None
    /\ acc = None
    /\ hook = NotCalled
    /\ ref = None
    /\ minted = << >>
    /\ result = None
    /\ inner = << >>
    /\ response = None
    /\ signing = None
    /\ builder = None
    /\ jar = None
    /\ guard = NotAsked

\* a request arrives and verify_service_request runs; it awaits nothing
RestReceive ==
    /\ pc = "idle"
    /\ \E rq \in HeaderRequests :
          LET o == RestAuthority_verify_service_request(cfg, rq, now) IN
          /\ req' = rq
          /\ t0' = now
          /\ acc' = Some(o.acc)
          /\ ref' = o.ref
          /\ ext' = o.ext
          /\ result' = Some(o.result)
    /\ pc' = "done"
    /\ UNCHANGED <<guard, jar, builder, signing, cfg, now, hook, minted, inner, response>>

RestNext ==
    \/ RestReceive
    \/ Finish
    \/ Tick

RestSpec == RestInit /\ [][RestNext]_vars

-----------------------------------------------------------------------------
(* What a request presents, stated independently of the extraction code:   *)
(* the sources in the order query, named header, Authorization, cookie;    *)
(* the token of an Authorization header is the text after "Bearer ".       *)

SourceOrder == << "query", "header", "authorization", "cookie" >>

Enabled(a, src) ==
    CASE src = "query" -> a.enable_query_tokens
      [] src = "header" -> a.enable_header_tokens
      [] src = "authorization" -> a.enable_authorization_header
      [] src = "cookie" -> a.enable_cookie_tokens

\* the token a source holds for a name: None, or Some(token body)
Held(rq, src, name) ==
    CASE src = "query" ->
            IF rq.query[name] = None THEN None ELSE Some(Unwrap(rq.query[name]).body)
      [] src = "header" ->
            IF rq.headers[name] = None THEN None ELSE Some(Unwrap(rq.headers[name]).body)
      [] src = "authorization" ->
            IF rq.authorization # None /\ Unwrap(rq.authorization).prefix = "Bearer "
            THEN Some(Unwrap(rq.authorization).body) ELSE None
      [] src = "cookie" ->
            IF rq.cookies[name] = None THEN None ELSE Some(Unwrap(rq.cookies[name]).body)

\* the sources that are enabled and hold a value for the name, by precedence
Holding(a, rq, name) ==
    SelectSeq(SourceOrder, LAMBDA src : Enabled(a, src) /\ Held(rq, src, name) # None)

PresentedSource(a, rq, name) ==
    IF Holding(a, rq, name) = << >> THEN "none" ELSE Holding(a, rq, name)[1]

Presented(a, rq, name) ==
    IF Holding(a, rq, name) = << >> THEN None
    ELSE Held(rq, Holding(a, rq, name)[1], name)

\* the condition of a presented token at a clock reading
Status(a, tok, clock) ==
    IF tok = None THEN "Absent"
    ELSE LET t == Unwrap(tok) IN
         IF t.kind # "jwt" THEN "Malformed"
         ELSE IF t.key # a.verifying_key THEN "BadSignature"
         ELSE IF t.payload # "ok" THEN "MalformedClaims"
         ELSE IF t.exp = NoExp THEN "NoExpiration"
         ELSE IF clock > t.exp * TicksPerSecond + a.leeway THEN "Expired"
         ELSE "Valid"

\* access token: as it was when the request arrived; refresh token: as it is
\* when the refresh branch runs (no time passes after the hook returned)
AccessStatus == Status(cfg, Presented(cfg, req, cfg.access_token_name), t0)
RefreshStatus == Status(cfg, Presented(cfg, req, cfg.refresh_token_name), now)
AccessSource == PresentedSource(cfg, req, cfg.access_token_name)
RefreshSource == PresentedSource(cfg, req, cfg.refresh_token_name)
AccessClaims == Unwrap(Presented(cfg, req, cfg.access_token_name)).custom
RefreshClaims == Unwrap(Presented(cfg, req, cfg.refresh_token_name)).custom

\* verify_service_request has returned
Returned == result # None
TheResult == Unwrap(result)
HookInvoked == hook.state \in {"called", "denied", "approved"}

-----------------------------------------------------------------------------
(* C1 *)

C1_Consequent ==
    /\ TheResult = Ok(None)
    /\ ext = Some(AccessClaims)
    /\ hook = NotCalled
    /\ ref = None
    /\ minted = << >>

\* C1: a request whose access token, at the highest-precedence enabled source
\* holding one, has a valid signature and is not expired gets Ok(None); the
\* token's custom claims are in the extensions, the hook was not invoked and
\* no token was minted.
C1_ValidAccessTokenAccepted ==
    (Returned /\ AccessStatus = "Valid") =>
        C1_Consequent

\* C1 for the tokens that do not arrive in an Authorization header: holds.
C1_ValidAccessTokenAcceptedOffAuthorization ==
    (Returned /\ AccessStatus = "Valid" /\ AccessSource # "authorization") =>
        C1_Consequent

-----------------------------------------------------------------------------
(* C2 *)

\* C2: the wrapped service is never called when verify_service_request
\* returned Err, and that error is what the middleware returns; when it
\* returned Ok the wrapped service is called exactly once, with the claims
\* already in the extensions; no call of the wrapped service without a
\* successful verification.
C2_InnerServiceOnlyAfterVerification ==
    /\ Len(inner) <= 1
    /\ inner # << >> => Returned /\ TheResult.ok
    /\ (Returned /\ ~TheResult.ok) => inner = << >> /\ response = Some(TheResult)
    /\ (Returned /\ TheResult.ok) => Len(inner) = 1 /\ inner[1] # None /\ inner[1] = ext

\* a renewed request has reached the wrapped service, which has answered
C2_Witness ==
    /\ pc = "done"
    /\ Returned /\ TheResult.ok /\ TheResult.val # None
    /\ Len(inner) = 1 /\ inner[1] = Some(RefreshClaims)

-----------------------------------------------------------------------------
(* C3 *)

RenewalPrecondition ==
    /\ Returned
    /\ AccessStatus \in {"Expired", "Absent"}
    /\ cfg.renew_access_token_automatically
    /\ hook.state = "approved"
    /\ cfg.token_signer # None

\* the result is a TokenUpdate whose access cookie is a token minted now for
\* the claims c
UpdatesAccessFor(c) ==
    /\ TheResult.ok /\ TheResult.val # None
    /\ LET u == Unwrap(TheResult.val) IN
       /\ u.access_cookie # None
       /\ Unwrap(u.access_cookie).name = cfg.access_token_name
       /\ Unwrap(u.access_cookie).value =
              Str("", Issued(Jwt(c, (now + AccessLifetime) \div TicksPerSecond,
                                 VerifyingKey, "ok"),
                             now \div TicksPerSecond))
    /\ ext = Some(c)

\* C3: access token expired or absent, renewal of the access token on, the
\* hook approved, a signer configured and the refresh token valid: the result
\* is Ok(Some(TokenUpdate)) with a new access token carrying exactly the
\* refresh token's claims and no refresh cookie; the same claims are in the
\* extensions.
C3_RenewalFromValidRefreshToken ==
    (RenewalPrecondition /\ RefreshStatus = "Valid") =>
        /\ UpdatesAccessFor(RefreshClaims)
        /\ Unwrap(TheResult.val).refresh_cookie = None
        /\ Len(minted) = 1

\* C3 for refresh tokens that do not arrive in an Authorization header: holds,
\* unless the claims of the refresh token cannot be serialized into a new
\* token, which ends the request with TokenCreation.
C3_RenewalOffAuthorization ==
    (RenewalPrecondition /\ RefreshStatus = "Valid" /\ RefreshSource # "authorization") =>
        IF RefreshClaims = Unserializable
        THEN TheResult = Err("TokenCreation", "Claims") /\ minted = << >> /\ ext = None
        ELSE /\ UpdatesAccessFor(RefreshClaims)
             /\ Unwrap(TheResult.val).refresh_cookie = None
             /\ Len(minted) = 1

C3_OffAuthorizationWitness ==
    /\ RenewalPrecondition /\ RefreshStatus = "Valid" /\ RefreshSource = "header"
    /\ AccessStatus = "Expired" /\ AccessClaims # RefreshClaims

-----------------------------------------------------------------------------
(* C4 *)

\* C4: when the hook denies (the access token being expired or absent and the
\* renewal of the access token on), the result is RefreshAuthorizerDenied
\* wrapping the hook's error; no TokenUpdate, no token minted, no claims
\* inserted, and the refresh token is not even validated.
C4_HookDenialIsTerminal ==
    hook.state = "denied" =>
        /\ AccessStatus \in {"Expired", "Absent"}
        /\ cfg.renew_access_token_automatically
        /\ Returned /\ TheResult = Err("RefreshAuthorizerDenied", hook.err)
        /\ minted = << >>
        /\ ext = None
        /\ ref = None
        /\ inner = << >>

\* the hook denied a request with an expired access token although a valid
\* refresh token and a signer were there
C4_Witness ==
    /\ hook.state = "denied"
    /\ AccessStatus = "Expired"
    /\ RefreshStatus = "Valid"
    /\ cfg.token_signer # None

-----------------------------------------------------------------------------
(* C5 *)

C5_Consequent ==
    /\ TheResult = Expired
    /\ hook = NotCalled
    /\ ref = None
    /\ minted = << >>
    /\ ext = None

\* C5: access token expired and renew_access_token_automatically false: the
\* result is Err(TokenValidation(Expired)); the hook is not invoked and the
\* refresh token is not looked at.
C5_ExpiredWithoutRenewal ==
    (Returned /\ AccessStatus = "Expired" /\ ~cfg.renew_access_token_automatically)
        => C5_Consequent

\* C5 for access tokens that do not arrive in an Authorization header: holds.
C5_ExpiredWithoutRenewalOffAuthorization ==
    (Returned /\ AccessStatus = "Expired" /\ ~cfg.renew_access_token_automatically
        /\ AccessSource # "authorization") => C5_Consequent

-----------------------------------------------------------------------------
(* C6 *)

\* C6: a request without any token gets Err(NoToken), for every
\* configuration and every answer of the hook (the hook's arguments, where
\* they are needed, having been extracted).
C6_NoTokenAtAll ==
    (Returned /\ req = NoRequest /\ hook.state # "args_err") => TheResult = NoToken

\* C6 as amended: a request without any token gets Err(NoToken) when the
\* hook is not consulted (renew_access_token_automatically false) or
\* approves; with renew_access_token_automatically true the hook is consulted
\* first, and its denial is returned as RefreshAuthorizerDenied, a failed
\* extraction of its arguments as RefreshAuthorizerCall.  Nothing is inserted
\* or minted and the wrapped service is not called.
C6_NoTokenUnlessHookRefuses ==
    (Returned /\ req = NoRequest) =>
        /\ (hook # NotCalled) <=> cfg.renew_access_token_automatically
        /\ hook.state = "denied" => TheResult = Err("RefreshAuthorizerDenied", hook.err)
        /\ hook.state = "args_err" => TheResult = Err("RefreshAuthorizerCall", hook.err)
        /\ hook.state \in {"not_called", "approved"} => TheResult = NoToken
        /\ ext = None /\ minted = << >> /\ inner = << >>

\* the hook approved a request without tokens, under an Authority with signer
C6_Witness ==
    /\ Returned /\ req = NoRequest
    /\ hook.state = "approved"
    /\ cfg.token_signer # None
    /\ TheResult = NoToken

-----------------------------------------------------------------------------
(* C7 *)

\* C7: a structurally malformed access token ends the request with
\* Err(TokenParse): the refresh branch is not entered and the hook is not
\* invoked, whatever renew_access_token_automatically and the refresh token.
C7_MalformedAccessTokenIsTerminal ==
    (Returned /\ AccessStatus = "Malformed") =>
        /\ ~TheResult.ok /\ TheResult.kind = "TokenParse"
        /\ hook = NotCalled
        /\ ref = None
        /\ minted = << >>
        /\ ext = None
        /\ inner = << >>

\* "not-a-valid-token" in the access cookie, renewal on, a valid refresh token
C7_Witness ==
    /\ Returned /\ AccessStatus = "Malformed" /\ AccessSource = "cookie"
    /\ TheResult = Err("TokenParse", "InvalidTokenStructure")
    /\ cfg.renew_access_token_automatically
    /\ RefreshStatus = "Valid"
    /\ cfg.token_signer # None

-----------------------------------------------------------------------------
(* C8 *)

RefreshBranchEntered == hook # NotCalled \/ ref # None \/ minted # << >>

\* C8: the refresh branch is entered only from the outcomes Expired and
\* NoToken of the access-token validation and only with
\* renew_access_token_automatically; every other error of the access-token
\* validation is the result, unchanged, the hook not invoked and nothing
\* minted.
C8_OnlyExpiredOrNoTokenEnterRefresh ==
    acc # None =>
        LET access == Unwrap(acc) IN
        /\ RefreshBranchEntered =>
              /\ ~access.ok
              /\ access \in {Expired, NoToken}
              /\ cfg.renew_access_token_automatically
        /\ (~access.ok /\ access \notin {Expired, NoToken}) =>
              /\ Returned /\ TheResult = access
              /\ ~RefreshBranchEntered
              /\ ext = None

\* a signature mismatch on the access token, with renewal on and a valid
\* refresh token at hand
C8_Witness ==
    /\ acc = Some(Err("TokenValidation", "InvalidSignature"))
    /\ result = acc
    /\ cfg.renew_access_token_automatically
    /\ RefreshStatus = "Valid"
    /\ cfg.token_signer # None

-----------------------------------------------------------------------------
(* C9 *)

\* the result is a TokenUpdate with an access cookie and a refresh cookie
UpdatesBoth ==
    /\ TheResult.ok /\ TheResult.val # None
    /\ Unwrap(TheResult.val).access_cookie # None
    /\ Unwrap(TheResult.val).refresh_cookie # None
    /\ Len(minted) = 2

\* C9: refresh branch entered, hook approved, signer configured, refresh
\* token expired and renew_refresh_token_automatically: the result is
\* Ok(Some(TokenUpdate)) with a new access and a new refresh token, at
\* whichever of the sources cookie, header, query the refresh token came.
C9_RenewBothFromExpiredRefreshToken ==
    (RenewalPrecondition /\ RefreshStatus = "Expired"
        /\ cfg.renew_refresh_token_automatically
        /\ RefreshSource \in {"cookie", "header", "query"}) => UpdatesBoth

\* C9 for an expired refresh token that came as a cookie: holds.
C9_RenewBothFromExpiredRefreshCookie ==
    (RenewalPrecondition /\ RefreshStatus = "Expired"
        /\ cfg.renew_refresh_token_automatically
        /\ RefreshSource = "cookie") => UpdatesBoth /\ ext = Some(RefreshClaims)

-----------------------------------------------------------------------------
(* C10 *)

\* the error that belongs to a condition of a token
IsErrorOf(res, status) ==
    /\ ~res.ok
    /\ CASE status = "Expired" -> res = Expired
         [] status = "Absent" -> res = NoToken
         [] status = "Malformed" -> res.kind = "TokenParse"
         [] status = "BadSignature" -> res = Err("TokenValidation", "InvalidSignature")
         [] OTHER -> FALSE

RefreshRejected ==
    \/ RefreshStatus = "Expired" /\ ~cfg.renew_refresh_token_automatically
    \/ RefreshStatus \in {"Absent", "Malformed", "BadSignature"}

\* C10: in the refresh branch, a refresh token that is expired while
\* renew_refresh_token_automatically is false, or absent, malformed or of a
\* wrong signature, makes exactly that error the result; no TokenUpdate, no
\* token minted, no claims inserted.
C10_RefreshTokenErrorIsTheResult ==
    (Returned /\ hook.state = "approved" /\ RefreshRejected) =>
        /\ IsErrorOf(TheResult, RefreshStatus)
        /\ minted = << >>
        /\ ext = None

\* C10 for refresh tokens that do not arrive in an Authorization header: holds.
C10_RefreshTokenErrorOffAuthorization ==
    (Returned /\ hook.state = "approved" /\ RefreshRejected
        /\ RefreshSource # "authorization") =>
        /\ IsErrorOf(TheResult, RefreshStatus)
        /\ minted = << >>
        /\ ext = None

-----------------------------------------------------------------------------
(* C11 *)

\* C11: without a token signer, every request that enters the refresh branch
\* and whose hook approves ends in Err(NoTokenSigner), whatever the refresh
\* token is (valid, expired, absent or invalid); nothing is minted.
C11_NoSignerIsAlwaysNoTokenSigner ==
    (Returned /\ hook.state = "approved" /\ cfg.token_signer = None) =>
        /\ TheResult = NoTokenSigner
        /\ minted = << >>

\* What the code does without a signer: NoTokenSigner only when the refresh
\* token validated; otherwise the error of the refresh token is the result.
C11_NoSignerOnlyAfterRefreshValidated ==
    (Returned /\ hook.state = "approved" /\ cfg.token_signer = None) =>
        /\ ref # None
        /\ TheResult = (IF Unwrap(ref).ok THEN NoTokenSigner ELSE Unwrap(ref))
        /\ minted = << >>
        /\ ext = None

C11_ValidRefreshWitness ==
    /\ Returned /\ hook.state = "approved" /\ cfg.token_signer = None
    /\ RefreshStatus = "Valid"
    /\ TheResult = NoTokenSigner

-----------------------------------------------------------------------------
(* C12 *)

\* C12: when the extraction of the hook's arguments fails the hook is not
\* invoked and the result is Err(RefreshAuthorizerCall) wrapping the
\* extraction error; Err(RefreshAuthorizerDenied) is the result only when the
\* hook itself ran and answered Err.
C12_ArgsFailureIsNotADenial ==
    /\ hook.state = "args_err" =>
          /\ Returned /\ TheResult = Err("RefreshAuthorizerCall", hook.err)
          /\ ~HookInvoked
          /\ ref = None /\ minted = << >> /\ ext = None /\ inner = << >>
    /\ (Returned /\ ~TheResult.ok /\ TheResult.kind = "RefreshAuthorizerDenied") =>
          /\ hook.state = "denied"
          /\ TheResult.detail = hook.err
    /\ (Returned /\ ~TheResult.ok /\ TheResult.kind = "RefreshAuthorizerCall") =>
          hook.state = "args_err"

\* the extraction failed for a request that a valid refresh token would have
\* renewed
C12_Witness ==
    /\ hook.state = "args_err"
    /\ Returned /\ TheResult = Err("RefreshAuthorizerCall", "args")
    /\ AccessStatus = "Expired"
    /\ RefreshStatus = "Valid"
    /\ cfg.token_signer # None

-----------------------------------------------------------------------------
(* C13 *)

\* the text a source holds for a name, as it stands in the request; an
\* Authorization header counts only with the Bearer prefix
RawAt(rq, src, name) ==
    CASE src = "query" -> rq.query[name]
      [] src = "header" -> rq.headers[name]
      [] src = "authorization" ->
            IF Held(rq, "authorization", name) # None THEN rq.authorization ELSE None
      [] src = "cookie" -> rq.cookies[name]

\* validation of the text at the first enabled source, in the order query,
\* named header, Authorization, cookie, that holds one; NoToken if none does
FirstHolderValidated(a, rq, clock, name) ==
    IF Holding(a, rq, name) = << >> THEN NoToken
    ELSE validate_jwt(Unwrap(RawAt(rq, Holding(a, rq, name)[1], name)),
                      a.verifying_key, a.leeway, clock)

\* C13: for a token name the enabled sources are consulted in the order
\* query, named header, Authorization header, cookie: the value validated is
\* the one of the first enabled source that holds a value, the values of the
\* later sources are ignored, and without any value the outcome is NoToken.
C13_ExtractionPrecedence ==
    /\ acc # None =>
          Unwrap(acc) = FirstHolderValidated(cfg, req, t0, cfg.access_token_name)
    /\ ref # None =>
          Unwrap(ref) = FirstHolderValidated(cfg, req, now, cfg.refresh_token_name)

\* a tampered access token in the named header wins over a valid one in the
\* cookie, both sources being enabled
C13_Witness ==
    /\ acc # None
    /\ Holding(cfg, req, cfg.access_token_name) = << "header", "cookie" >>
    /\ Status(cfg, Held(req, "cookie", cfg.access_token_name), t0) = "Valid"
    /\ Status(cfg, Held(req, "header", cfg.access_token_name), t0) = "BadSignature"
    /\ Unwrap(acc) = Err("TokenValidation", "InvalidSignature")

-----------------------------------------------------------------------------
(* C14 *)

NoValues == [n \in Names |-> None]

\* the request without the values at the sources that are disabled
StripDisabled(a, rq) ==
    [ query |-> IF a.enable_query_tokens THEN rq.query ELSE NoValues,
      headers |-> IF a.enable_header_tokens THEN rq.headers ELSE NoValues,
      authorization |-> IF a.enable_authorization_header THEN rq.authorization ELSE None,
      cookies |-> IF a.enable_cookie_tokens THEN rq.cookies ELSE NoValues ]

\* the default sources: cookies only
CookiesOnly(a) ==
    /\ a.enable_cookie_tokens
    /\ ~a.enable_header_tokens
    /\ ~a.enable_authorization_header
    /\ ~a.enable_query_tokens

\* the request carries one thing: an unexpired, correctly signed access
\* token in the header named access_token
ValidAccessHeaderOnly ==
    /\ \E b \in GoodTokens : req = MkRequest([sl \in {"header_access"} |-> Str("", b)])
    /\ Status(cfg, Held(req, "header", cfg.access_token_name), t0) = "Valid"

\* the extraction of both tokens ignores the disabled sources, and the two
\* header tests hold
C14_ExtractionIgnoresDisabledSources ==
    /\ acc # None =>
          Unwrap(acc) = validate_access_token(cfg, StripDisabled(cfg, req), t0)
    /\ ref # None =>
          Unwrap(ref) = validate_refresh_token(cfg, StripDisabled(cfg, req), now)
    /\ (Returned /\ CookiesOnly(cfg) /\ ValidAccessHeaderOnly
            /\ hook.state \in {"not_called", "approved"}) =>
          TheResult = NoToken /\ ext = None
    /\ (Returned /\ CookiesOnly(cfg) /\ ValidAccessHeaderOnly) => ~TheResult.ok
    /\ (Returned /\ cfg.enable_header_tokens /\ ValidAccessHeaderOnly) =>
          TheResult = Ok(None) /\ ext = Some(AccessClaims)

\* C14: a disabled source is never consulted: the outcome of a request is the
\* outcome of the same request without the values at the disabled sources;
\* with cookies only, a valid access token in the header access_token gives
\* NoToken, and with enable_header_tokens it is authenticated.
C14_DisabledSourceNeverConsulted ==
    /\ C14_ExtractionIgnoresDisabledSources
    /\ (Returned /\ hook.state = "approved") =>
          LET o == RefreshBranch(cfg, StripDisabled(cfg, req), now) IN
          /\ TheResult = o.result
          /\ ext = o.ext
          /\ minted = o.minted

C14_HeaderTestsWitness ==
    /\ Returned /\ ValidAccessHeaderOnly
    /\ \/ CookiesOnly(cfg) /\ hook.state = "approved" /\ TheResult = NoToken
       \/ cfg.enable_header_tokens /\ ~cfg.enable_query_tokens /\ TheResult = Ok(None)

-----------------------------------------------------------------------------
(* C15 *)

WithoutAuthorization(rq) == [rq EXCEPT !.authorization = None]

\* the request has an Authorization header that does not start with Bearer,
\* or that is no string
OtherScheme(rq) ==
    /\ rq.authorization # None
    /\ Unwrap(rq.authorization).prefix # "Bearer "

\* C15: an Authorization header that does not start with the literal Bearer
\* (case-sensitive), or that is not a valid string, counts as absent: the
\* extraction goes on to the next enabled source and the header never gives
\* a parse or validation error.
C15_OtherSchemeIsAbsent ==
    OtherScheme(req) =>
        /\ acc # None =>
              Unwrap(acc) = validate_access_token(cfg, WithoutAuthorization(req), t0)
        /\ ref # None =>
              Unwrap(ref) = validate_refresh_token(cfg, WithoutAuthorization(req), now)
        /\ (acc # None /\ Holding(cfg, WithoutAuthorization(req), cfg.access_token_name) = << >>)
              => Unwrap(acc) = NoToken
        /\ (ref # None /\ Holding(cfg, WithoutAuthorization(req), cfg.refresh_token_name) = << >>)
              => Unwrap(ref) = NoToken

\* a lower-case "bearer <valid token>" with the Authorization source enabled:
\* the cookie behind it is what authenticates the request
C15_Witness ==
    /\ Returned /\ cfg.enable_authorization_header /\ cfg.enable_cookie_tokens
    /\ req.authorization = Some(Str("bearer ", Jwt(1, 1, VerifyingKey, "ok")))
    /\ AccessSource = "cookie" /\ AccessStatus = "Valid" /\ AccessClaims = 2
    /\ TheResult = Ok(None) /\ ext = Some(2)

-----------------------------------------------------------------------------
(* C16 *)

\* the Authorization header of the request is what create_bearer_header_value
\* made for the claims c at some clock reading t, and the request arrived
\* within the access lifetime
BearerHeaderFor(c) ==
    \E sg \in TokenSigners, t \in 0..t0 :
        /\ req.authorization = Some(create_bearer_header_value(sg, c, t).val)
        /\ t0 <= t + sg.access_token_lifetime

\* C16: with enable_authorization_header, a request whose Authorization
\* header is the value of create_bearer_header_value(claims), presented
\* within the access lifetime, is authenticated: Ok(None) and the same claims
\* in the extensions.
C16_BearerRoundTrip ==
    \A c \in Claims :
        (Returned /\ cfg.enable_authorization_header /\ BearerHeaderFor(c)
            /\ AccessSource = "authorization") =>
            /\ TheResult = Ok(None)
            /\ ext = Some(c)

\* What the code does: the text validated keeps the Bearer prefix, so a token
\* taken from an Authorization header never gets past UntrustedToken::new.
C16_BearerHeaderNeverParses ==
    /\ (acc # None /\ AccessSource = "authorization") =>
          ~Unwrap(acc).ok /\ Unwrap(acc).kind = "TokenParse"
    /\ (ref # None /\ RefreshSource = "authorization") =>
          ~Unwrap(ref).ok /\ Unwrap(ref).kind = "TokenParse"

C16_BearerHeaderWitness ==
    /\ Returned /\ cfg.enable_authorization_header /\ BearerHeaderFor(2)
    /\ AccessSource = "authorization" /\ AccessStatus = "Valid"
    /\ TheResult = Err("TokenParse", "InvalidBase64Encoding")

-----------------------------------------------------------------------------
(* C17 *)

Sources == {"query", "header", "authorization", "cookie"}

AccessSlot(src) == IF src = "authorization" THEN "authorization" ELSE src \o "_access"

ValueAt(src, body) == IF src = "authorization" THEN Str("Bearer ", body) ELSE Str("", body)

\* a request that holds "not-a-valid-token" at the source A and a well-formed
\* token at the source B, as access token
Probe(A, B) ==
    MkRequest([sl \in {AccessSlot(A), AccessSlot(B)} |->
                  IF sl = AccessSlot(A) THEN ValueAt(A, Garbage)
                  ELSE ValueAt(B, Jwt(1, 1, VerifyingKey, "ok"))])

\* under the Authority a both sources are enabled and A is consulted before
\* B: the outcome is the one of the text at A
ConsultedBefore(a, A, B) ==
    /\ Enabled(a, A) /\ Enabled(a, B)
    /\ validate_access_token(a, Probe(A, B), 0) = Err("TokenParse", "InvalidTokenStructure")

\* the Authorities a and b have the same sources enabled
SameSources(a, b) == \A src \in Sources : Enabled(a, src) = Enabled(b, src)

\* C17: the precedence of the sources is a configuration option: for any two
\* sources A and B that the Authority has enabled there is a configuration
\* with the same sources enabled that consults A before B, and another that
\* consults B before A.
C17_PrecedenceIsConfigurable ==
    \A A \in Sources : \A B \in Sources \ {A} :
        (Enabled(cfg, A) /\ Enabled(cfg, B)) =>
            /\ \E a \in Authorities : SameSources(a, cfg) /\ ConsultedBefore(a, A, B)
            /\ \E a \in Authorities : SameSources(a, cfg) /\ ConsultedBefore(a, B, A)

\* What the code does: every Authority consults the sources in the one order
\* query, named header, Authorization header, cookie.
C17_PrecedenceIsFixed ==
    \A i \in 1..4, j \in 1..4 :
        (i < j /\ Enabled(cfg, SourceOrder[i]) /\ Enabled(cfg, SourceOrder[j])) =>
            /\ ConsultedBefore(cfg, SourceOrder[i], SourceOrder[j])
            /\ ~ConsultedBefore(cfg, SourceOrder[j], SourceOrder[i])

-----------------------------------------------------------------------------
(* C18 *)

\* the token at hand is create_signed_token(c, L) of the clock reading t0,
\* undamaged
SignedAs(c, L) ==
    /\ signing = Some([claims |-> c, token_lifetime |-> L])
    /\ minted # << >>
    /\ minted[1].prefix = ""
    /\ minted[1].body.key = VerifyingKey

\* C18: for all claims C and lifetimes L, the token of
\* create_signed_token(C, L), validated by validate_jwt with the matching
\* verifying key and the clock at the issuance time, succeeds and yields
\* custom claims equal to C.
C18_SignValidateRoundTrip ==
    \A c \in Claims, L \in 0..MaxLifetime :
        (SignedAs(c, L) /\ acc # None /\ now = t0) =>
            /\ Unwrap(acc).ok
            /\ Unwrap(acc).val.custom = c

\* C18 as amended: the round trip at the issuance time succeeds and yields
\* the claims C for every lifetime L of at least one second; the expiration
\* is stored in whole seconds, so a token of a shorter lifetime succeeds
\* when its stored expiration plus the leeway is not before the issuance
\* time and is rejected as expired otherwise.
C18_RoundTripFromOneSecond ==
    \A c \in Claims, L \in 0..MaxLifetime :
        (SignedAs(c, L) /\ acc # None /\ now = t0) =>
            LET stored == minted[1].body.exp * TicksPerSecond IN
            /\ t0 + L - TicksPerSecond < stored /\ stored <= t0 + L
            /\ L >= TicksPerSecond => Unwrap(acc).ok
            /\ Unwrap(acc).ok <=> t0 <= stored + cfg.leeway
            /\ Unwrap(acc).ok => Unwrap(acc).val.custom = c
            /\ ~Unwrap(acc).ok => Unwrap(acc) = Expired

\* claims 2 signed for a lifetime of one second in the middle of a second,
\* without leeway, and validated at once
C18_Witness ==
    /\ SignedAs(2, TicksPerSecond) /\ now = t0 /\ t0 = 1 /\ cfg.leeway = 0
    /\ acc # None /\ Unwrap(acc).ok /\ Unwrap(acc).val.custom = 2

-----------------------------------------------------------------------------
(* C19 *)

C19_RejectedWitness ==
    /\ cfg.leeway = 1
    /\ SignedAs(1, MaxLifetime)
    /\ now = minted[1].body.exp * TicksPerSecond + 2
    /\ acc = Some(Expired)

-----------------------------------------------------------------------------
(* C20 *)

TokenExpired == now > minted[1].body.exp * TicksPerSecond + cfg.leeway
SignatureFlipped == minted[1].body.key # cfg.verifying_key
EncodingBroken == minted[1].prefix # ""

\* C20: validate_jwt checks the structure, then the signature, then the
\* expiry, and reports the first failure: a token with a tampered signature
\* fails with the signature error and never with Expired, also when it is
\* expired, so it cannot enter the refresh branch through Expired.
C20_ValidationOrder ==
    (minted # << >> /\ acc # None) =>
        LET out == Unwrap(acc) IN
        /\ EncodingBroken => ~out.ok /\ out.kind = "TokenParse"
        /\ (~EncodingBroken /\ SignatureFlipped) =>
              /\ out = Err("TokenValidation", "InvalidSignature")
              /\ out # Expired
              /\ ~EntersRefreshBranch(cfg, out)
        /\ (~EncodingBroken /\ ~SignatureFlipped /\ TokenExpired) =>
              /\ out = Expired
              /\ EntersRefreshBranch(cfg, out)

\* a token whose signature was flipped is validated after its expiry
C20_Witness ==
    /\ minted # << >> /\ acc # None
    /\ ~EncodingBroken /\ SignatureFlipped /\ TokenExpired
    /\ Unwrap(acc) = Err("TokenValidation", "InvalidSignature")

\* In the middleware: an access token of a wrong signature, expired or not,
\* is rejected with the signature error and the refresh branch is not entered.
C20_TamperedNeverRenewed ==
    (Returned /\ AccessStatus = "BadSignature" /\ AccessSource # "authorization") =>
        /\ TheResult = Err("TokenValidation", "InvalidSignature")
        /\ ~RefreshBranchEntered

-----------------------------------------------------------------------------
(* C21 *)

\* C21: for every request and every configuration verify_service_request
\* returns Ok(None), Ok(Some(TokenUpdate)) or Err(AuthError); no branch
\* panics, the renewal of an expired refresh token included, whichever
\* source supplied the refresh token.
C21_NoBranchPanics ==
    Returned => TheResult # Panic

\* What the code does: it panics only in the renewal arm of an expired
\* refresh token, when the cookie named refresh_token is missing or is no
\* token with readable claims.
C21_PanicsOnlyWithoutReadableRefreshCookie ==
    (Returned /\ TheResult = Panic) =>
        /\ hook.state = "approved"
        /\ ref = Some(Expired)
        /\ cfg.renew_refresh_token_automatically /\ cfg.token_signer # None
        /\ \/ req.cookies[cfg.refresh_token_name] = None
           \/ ~extract_claims_unsafe(Unwrap(req.cookies[cfg.refresh_token_name])).ok
        /\ minted = << >> /\ ext = None

C21_PanicWitness ==
    /\ Returned /\ TheResult = Panic
    /\ RefreshSource = "query" /\ RefreshStatus = "Expired"
    /\ req.cookies[cfg.refresh_token_name] = None

-----------------------------------------------------------------------------
(* C22 *)

\* the cookies of a TokenUpdate that are present, access cookie first
CookiesOf(update) ==
    IF update = None THEN << >>
    ELSE Unwrap(update).access_cookie \o Unwrap(update).refresh_cookie

\* C22: on Ok(Some(update)) the wrapped service is called, and a successful
\* response carries the access cookie and then the refresh cookie of the
\* update, those that are present; a failure of attaching a cookie is
\* returned as an error instead of the response; an error of the wrapped
\* service is returned and no cookie is attached.
C22_TokenDelivery ==
    (pc = "done" /\ Returned /\ TheResult.ok) =>
        /\ Len(inner) = 1
        /\ response # None
        /\ LET r == Unwrap(response) IN
           /\ r.ok => r.val = CookiesOf(TheResult.val)
           /\ ~r.ok =>
                 \/ r = Err("ServiceError", "")
                 \/ /\ r = Err("HttpError", "access")
                    /\ TheResult.val # None
                    /\ Unwrap(TheResult.val).access_cookie # None
                 \/ /\ r = Err("HttpError", "refresh")
                    /\ TheResult.val # None
                    /\ Unwrap(TheResult.val).refresh_cookie # None

\* both cookies of a renewal of both tokens were attached
C22_Witness ==
    /\ pc = "done" /\ Returned /\ TheResult.ok /\ TheResult.val # None
    /\ Len(CookiesOf(TheResult.val)) = 2
    /\ response = Some(Ok(CookiesOf(TheResult.val)))
    /\ CookiesOf(TheResult.val)[1].name = cfg.access_token_name
    /\ CookiesOf(TheResult.val)[2].name = cfg.refresh_token_name

\* attaching the refresh cookie failed: the error is the response
C22_FailureWitness ==
    /\ pc = "done" /\ Returned /\ TheResult.ok /\ TheResult.val # None
    /\ response = Some(Err("HttpError", "refresh"))

-----------------------------------------------------------------------------
(* C23 *)

IsAuthError(res) == ~res.ok /\ res # Panic

\* C23: the HTTP status of an AuthError follows from its kind: 401 for a
\* missing, invalid or expired token, 400 for a token that cannot be parsed,
\* 500 for a missing signer and a failed token creation, and the status the
\* hook declared for RefreshAuthorizerDenied.
C23_StatusMapping ==
    (Returned /\ IsAuthError(TheResult)) =>
        LET err == TheResult IN
        /\ err.kind \in {"NoToken", "TokenValidation"} => status_code(err) = "401"
        /\ err.kind = "TokenParse" => status_code(err) = "400"
        /\ err.kind \in {"NoTokenSigner", "TokenCreation"} => status_code(err) = "500"
        /\ err.kind = "RefreshAuthorizerDenied" => status_code(err) = hook.err

\* What the code does: as C23 says, except that a missing token is answered
\* with 302 Found and a Location header pointing to /login.
C23_MissingTokenRedirects ==
    (Returned /\ IsAuthError(TheResult)) =>
        LET err == TheResult IN
        /\ err.kind = "NoToken" => error_response(err) = [status |-> "302", location |-> Some("/login")]
        /\ err.kind = "TokenValidation" => status_code(err) = "401"
        /\ err.kind = "TokenParse" => status_code(err) = "400"
        /\ err.kind \in {"NoTokenSigner", "TokenCreation"} => status_code(err) = "500"
        /\ err.kind = "RefreshAuthorizerDenied" => status_code(err) = hook.err
        /\ err.kind # "NoToken" => error_response(err).location = None

C23_DeniedWitness ==
    /\ Returned /\ TheResult = Err("RefreshAuthorizerDenied", "403")
    /\ status_code(TheResult) = "403"

-----------------------------------------------------------------------------
(* C24 *)

\* the builder that was built, and what build returned
Built == cfg # None /\ builder # None
TheBuilder == Unwrap(builder)
BuildResult == Unwrap(cfg)

HasSigner(b) == b.token_signer # None /\ Unwrap(b.token_signer) # None
SignerOf(b) == Unwrap(Unwrap(b.token_signer))
IsSet(b, field_name) == b[field_name] # None

\* the required fields build finds neither set nor on an attached signer
MissingFields(b) ==
    { f \in {"refresh_authorizer", "verifying_key"} : ~IsSet(b, f) }
    \cup { f \in {"algorithm", "time_options"} : ~IsSet(b, f) /\ ~HasSigner(b) }

\* C24: build succeeds exactly when refresh_authorizer and verifying_key are
\* set and algorithm and time_options are each set or taken from an attached
\* signer; otherwise it fails with an uninitialized-field error naming a
\* missing field.  Fields left unset get their defaults: access renewal on,
\* refresh renewal off, cookies on, the other sources off, and the names
\* "access_token" / "refresh_token" when no signer is attached.
C24_BuildContract ==
    Built =>
        LET b == TheBuilder
            r == BuildResult
        IN  /\ r.ok <=> MissingFields(b) = {}
            /\ ~r.ok => r.kind = "UninitializedField" /\ r.detail \in MissingFields(b)
            /\ r.ok =>
                 /\ ~IsSet(b, "renew_access_token_automatically") =>
                        r.val.renew_access_token_automatically = TRUE
                 /\ ~IsSet(b, "renew_refresh_token_automatically") =>
                        r.val.renew_refresh_token_automatically = FALSE
                 /\ ~IsSet(b, "enable_cookie_tokens") => r.val.enable_cookie_tokens = TRUE
                 /\ ~IsSet(b, "enable_header_tokens") => r.val.enable_header_tokens = FALSE
                 /\ ~IsSet(b, "enable_query_tokens") => r.val.enable_query_tokens = FALSE
                 /\ ~IsSet(b, "enable_authorization_header") =>
                        r.val.enable_authorization_header = FALSE
                 /\ (~IsSet(b, "access_token_name") /\ ~HasSigner(b)) =>
                        r.val.access_token_name = "access_token"
                 /\ (~IsSet(b, "refresh_token_name") /\ ~HasSigner(b)) =>
                        r.val.refresh_token_name = "refresh_token"
                 /\ ~IsSet(b, "algorithm") => r.val.algorithm = SignerOf(b).algorithm
                 /\ ~IsSet(b, "time_options") => r.val.leeway = SignerOf(b).leeway
                 /\ \A f \in BoolFields \cup {"verifying_key", "algorithm"} :
                        IsSet(b, f) => r.val[f] = Unwrap(b[f])

\* built from a signer alone: algorithm and time options come from the signer
C24_Witness ==
    /\ Built /\ BuildResult.ok
    /\ HasSigner(TheBuilder)
    /\ ~IsSet(TheBuilder, "algorithm") /\ ~IsSet(TheBuilder, "time_options")
    /\ ~IsSet(TheBuilder, "enable_cookie_tokens")

\* a signer explicitly set to None supplies nothing: build names the algorithm
C24_FailureWitness ==
    /\ Built /\ BuildResult = UninitializedFieldError("algorithm")
    /\ TheBuilder.token_signer = Some(None)
    /\ IsSet(TheBuilder, "time_options")

-----------------------------------------------------------------------------
(* C25 *)

\* C25: with a token signer attached, the built Authority looks tokens up
\* under the signer's access_token_name and refresh_token_name, whatever
\* names were set on the builder.
C25_SignerNamesAlwaysUsed ==
    (Built /\ BuildResult.ok /\ HasSigner(TheBuilder)) =>
        /\ BuildResult.val.access_token_name = SignerOf(TheBuilder).access_token_name
        /\ BuildResult.val.refresh_token_name = SignerOf(TheBuilder).refresh_token_name

\* What the code does: a name set on the builder wins over the signer's; the
\* signer's name is used only for a name that was left unset.
C25_ExplicitNameWins ==
    (Built /\ BuildResult.ok) =>
        \A f \in {"access_token_name", "refresh_token_name"} :
            BuildResult.val[f] =
                IF IsSet(TheBuilder, f) THEN Unwrap(TheBuilder[f])
                ELSE IF HasSigner(TheBuilder) THEN SignerOf(TheBuilder)[f]
                ELSE IF f = "access_token_name" THEN "access_token" ELSE "refresh_token"

\* the Authority looks for "session", the signer mints "access_token"
C25_MismatchWitness ==
    /\ Built /\ BuildResult.ok /\ HasSigner(TheBuilder)
    /\ BuildResult.val.access_token_name = "session"
    /\ SignerOf(TheBuilder).access_token_name = AccessName

-----------------------------------------------------------------------------
(* C26 *)

\* a call of the signer has returned
SignerReturned == signing # None /\ result # None
TheCall == Unwrap(signing)
TheOutcome == Unwrap(result)

CookieOps == {"create_cookie", "create_access_cookie", "create_refresh_cookie"}

\* the value is a token the signer signed for the claims of the call at the
\* clock reading of the call
FreshlySigned(value) ==
    /\ value.prefix = ""
    /\ value.body.kind = "jwt"
    /\ value.body.custom = TheCall.claims
    /\ value.body.key = cfg.signing_key
    /\ value.body.payload = "ok"
    /\ value.body.iat = NumericDate(t0)

\* the name the operation gives to its cookie
CookieNameOf(call) ==
    CASE call.op = "create_access_cookie" -> cfg.access_token_name
      [] call.op = "create_refresh_cookie" -> cfg.refresh_token_name
      [] OTHER -> call.cookie_name

\* C26: every cookie the signer creates is marked secure, whatever the
\* configuration of the signer, carries the configured name and a freshly
\* signed token as its value.
C26_CookiesAreSecure ==
    (SignerReturned /\ TheCall.op \in CookieOps /\ TheOutcome.ok) =>
        /\ TheOutcome.val.secure
        /\ TheOutcome.val.name = CookieNameOf(TheCall)
        /\ FreshlySigned(TheOutcome.val.value)

\* What the code does: name and value are as C26 says; the cookie is secure
\* exactly when the cookie_builder of the signer says so.
C26_SecureAsTheBuilderSays ==
    (SignerReturned /\ TheCall.op \in CookieOps /\ TheOutcome.ok) =>
        /\ TheOutcome.val.secure <=> (cfg.cookie_builder.secure = Some(TRUE))
        /\ TheOutcome.val.name = CookieNameOf(TheCall)
        /\ FreshlySigned(TheOutcome.val.value)

\* an access cookie without the secure mark, from Cookie::build("", "")
C26_InsecureWitness ==
    /\ SignerReturned /\ TheCall.op = "create_access_cookie" /\ TheOutcome.ok
    /\ cfg.cookie_builder.secure = None
    /\ ~TheOutcome.val.secure

-----------------------------------------------------------------------------
(* C27 *)

\* the token in what the call returned: the value of a cookie, the header
\* value, or the token itself
TokenOf(call, outcome) ==
    IF call.op \in CookieOps THEN outcome.val.value.body ELSE outcome.val.body

\* the lifetime the operation is to give to its token
LifetimeOf(call) ==
    CASE call.op \in {"create_access_cookie", "create_bearer_header_value"} ->
             cfg.access_token_lifetime
      [] call.op = "create_refresh_cookie" -> cfg.refresh_token_lifetime
      [] OTHER -> call.token_lifetime

\* C27: a token minted at clock time t has issued-at = t and expiry = t +
\* lifetime, the lifetime being access_token_lifetime for access tokens and
\* bearer header values and refresh_token_lifetime for refresh tokens.
C27_ExactLifetimes ==
    (SignerReturned /\ TheOutcome.ok) =>
        LET jwt == TokenOf(TheCall, TheOutcome) IN
        /\ DateTime(jwt.iat) = t0
        /\ DateTime(jwt.exp) = t0 + LifetimeOf(TheCall)

\* C27, as amended: issued-at and expiry are t and t + lifetime in the whole
\* seconds of the token, the fraction of a second cut off.
C27_LifetimesInWholeSeconds ==
    (SignerReturned /\ TheOutcome.ok) =>
        LET jwt == TokenOf(TheCall, TheOutcome) IN
        /\ jwt.iat = NumericDate(t0)
        /\ jwt.exp = NumericDate(t0 + LifetimeOf(TheCall))

\* a bearer header value minted half a second after a full second
C27_Witness ==
    /\ SignerReturned /\ TheOutcome.ok
    /\ TheCall.op = "create_bearer_header_value"
    /\ t0 = TicksPerSecond + 1
    /\ cfg.access_token_lifetime = AccessLifetime
    /\ TokenOf(TheCall, TheOutcome).exp = 2
    /\ TokenOf(TheCall, TheOutcome).iat = 1

\* a refresh cookie carries the refresh lifetime
C27_RefreshWitness ==
    /\ SignerReturned /\ TheOutcome.ok
    /\ TheCall.op = "create_refresh_cookie"
    /\ t0 = TicksPerSecond
    /\ TokenOf(TheCall, TheOutcome).exp = NumericDate(TicksPerSecond + RefreshLifetime)

\* In the request flow: the tokens of a TokenUpdate expire one lifetime after
\* the clock reading of the renewal, whatever the expiry of the tokens the
\* request presented.
C27_RenewedExpiryFromClock ==
    (Returned /\ TheResult.ok /\ TheResult.val # None) =>
        LET u == Unwrap(TheResult.val) IN
        /\ u.access_cookie # None
        /\ Unwrap(u.access_cookie).value.body.exp = NumericDate(now + AccessLifetime)
        /\ Unwrap(u.access_cookie).value.body.iat = NumericDate(now)
        /\ u.refresh_cookie # None =>
               Unwrap(u.refresh_cookie).value.body.exp = NumericDate(now + RefreshLifetime)

-----------------------------------------------------------------------------
(* C28 *)

\* C28: create_signed_token returns Err(TokenCreation) only when the signing
\* of the algorithm fails and Ok in every other case, for every claims value
\* and every lifetime: it never panics.
C28_FailsOnlyWithTokenCreation ==
    (SignerReturned /\ TheCall.op = "create_signed_token") =>
        IF TheCall.claims = Unserializable
        THEN TheOutcome = Err("TokenCreation", "Claims")
        ELSE TheOutcome.ok

\* What the code does: a lifetime beyond TimeDelta::MAX panics in
\* from_std(..).unwrap(), an expiration beyond DateTime::MAX_UTC panics in
\* the addition; otherwise C28 holds.
C28_PanicsOnLargeLifetimes ==
    (SignerReturned /\ TheCall.op = "create_signed_token") =>
        IF \/ TheCall.token_lifetime > TimeDeltaMAX
           \/ t0 + TheCall.token_lifetime > DateTimeMAX
        THEN TheOutcome = Panic
        ELSE IF TheCall.claims = Unserializable
        THEN TheOutcome = Err("TokenCreation", "Claims")
        ELSE TheOutcome.ok

\* Duration::MAX as the lifetime
C28_PanicWitness ==
    /\ SignerReturned /\ TheCall.op = "create_signed_token"
    /\ TheCall.token_lifetime = DurationMAX
    /\ TheOutcome = Panic

-----------------------------------------------------------------------------
(* C29 *)

\* what verify_service_request makes of one request on its own: the result
\* and the claims inserted, from the configuration, the request, the clock
\* reading on arrival, the answer of the hook and the clock reading on
\* resumption
Alone(a, rq, arrival, answer, resumption) ==
    LET access == validate_access_token(a, rq, arrival) IN
    IF access.ok THEN [result |-> Ok(None), ext |-> Some(access.val.custom)]
    ELSE IF ~EntersRefreshBranch(a, access) THEN [result |-> access, ext |-> None]
    ELSE IF answer.state = "args_err"
    THEN [result |-> Err("RefreshAuthorizerCall", "args"), ext |-> None]
    ELSE IF answer.state = "denied"
    THEN [result |-> Err("RefreshAuthorizerDenied", answer.err), ext |-> None]
    ELSE LET o == RefreshBranch(a, rq, resumption) IN
         [result |-> o.result, ext |-> o.ext]

\* C29: with requests in flight at once against one Authority, under every
\* interleaving around the suspension in the hook, the result, the inserted
\* claims and the TokenUpdate of a request are those of the request on its
\* own: they follow from that request, the configuration, the clock readings
\* and the answer of the hook for that request.  The configuration is one of
\* those the Authority was built with and no task writes it.
C29_RequestIsolation ==
    /\ cfg \in TaskAuthorities
    /\ \A i \in Tasks :
          result[i] # None =>
              LET alone == Alone(cfg, req[i], t0[i].arrival, hook[i], t0[i].resumption) IN
              /\ Unwrap(result[i]) = alone.result
              /\ ext[i] = alone.ext
              /\ (pc[i] = "done" /\ Unwrap(result[i]).ok) =>
                     \/ response[i] = Some(Err("ServiceError", ""))
                     \/ response[i] = Some(Ok(CookiesOf(alone.result.val)))

\* C29, the configuration: no step of any task changes the Authority
C29_ConfigurationReadOnly == [][cfg' = cfg]_vars

\* task 2 arrived after task 1, was renewed for its own claims and is done
\* while task 1, with other claims, is still suspended in its hook
C29_Witness ==
    /\ pc[1] = "hook" /\ pc[2] = "done"
    /\ t0[1].arrival < t0[2].arrival
    /\ req[1] # req[2]
    /\ req[1].cookies[RefreshName] = Some(Str("", Jwt(1, 1, VerifyingKey, "ok")))
    /\ result[2] # None /\ Unwrap(result[2]).ok /\ Unwrap(result[2]).val # None
    /\ ext[2] = Some(2)

\* both tasks suspended in their hooks at once
C29_BothSuspendedWitness ==
    /\ pc[1] = "hook" /\ pc[2] = "hook"
    /\ req[1] # req[2]

-----------------------------------------------------------------------------
(* C30 *)

\* the claims the client logged in with
ClientClaims == Unwrap(jar[Unwrap(cfg.token_signer).refresh_token_name]).body.custom

\* the Authority looks tokens up under the names its signer gives them
SignerNamesUsed ==
    /\ cfg.access_token_name = Unwrap(cfg.token_signer).access_token_name
    /\ cfg.refresh_token_name = Unwrap(cfg.token_signer).refresh_token_name

\* what C30 says of a request that has returned
Renewed ==
    /\ TheResult.ok
    /\ ext = Some(ClientClaims)
    /\ Unwrap(acc).ok => TheResult.val = None
    /\ acc = Some(Expired) =>
          /\ TheResult.val # None
          /\ LET u == Unwrap(TheResult.val) IN
             /\ u.access_cookie # None
             /\ Unwrap(u.access_cookie).value.body.custom = ClientClaims
             /\ Unwrap(u.access_cookie).value.body.exp = NumericDate(now + AccessLifetime)
             /\ (u.refresh_cookie # None) <=> (ref = Some(Expired))
             /\ ref = Some(Expired) =>
                   /\ Unwrap(u.refresh_cookie).value.body.custom = ClientClaims
                   /\ Unwrap(u.refresh_cookie).value.body.exp
                          = NumericDate(now + RefreshLifetime)

\* C30: with both renewals on, a signer attached and a hook that approves, a
\* client that presents on every request the cookies it received last stays
\* authenticated, whatever time passes between its requests: every request
\* returns Ok with the claims of the client inserted, an expired access token
\* is renewed, and an expired refresh token is renewed with it.
C30_StaysAuthenticated == Returned => Renewed

\* What the code does: C30 holds when the Authority looks tokens up under
\* the names of its signer.  With a refresh_token_name of its own the
\* Authority never finds the refresh cookie its signer created.
C30_StaysAuthenticatedUnderSignerNames == (Returned /\ SignerNamesUsed) => Renewed

\* the access token of the login has expired and the Authority finds no
\* refresh token under its name: the client is turned away
C30_TurnedAwayWitness ==
    /\ Returned /\ TheResult = NoToken
    /\ ~SignerNamesUsed
    /\ acc = Some(Expired)
    /\ jar["jwt_refresh"] # None

\* a refresh token that was itself a renewed one has expired and is renewed
\* again, after two lifetimes of the refresh token
C30_Witness ==
    /\ Returned /\ TheResult.ok /\ TheResult.val # None
    /\ Unwrap(TheResult.val).refresh_cookie # None
    /\ Unwrap(req.cookies[RefreshName]).body.iat > 0
    /\ now >= 2 * RefreshLifetime
    /\ ext = Some(ClientClaims)

\* Under fair processing and the names of the signer the client reaches the
\* wrapped service again and again, and no request of it is ever turned away.
C30_ServedForever ==
    SignerNamesUsed => ([]<>(pc = "inner") /\ [](pc = "done" => TheResult.ok))

-----------------------------------------------------------------------------
(* C31 *)

\* validate_access_token ended in Expired or NoToken and the renewal of the
\* access token is on
RenewalDue ==
    /\ acc # None
    /\ Unwrap(acc) = Expired \/ Unwrap(acc) = NoToken
    /\ cfg.renew_access_token_automatically

\* the refresh token is validated and tokens are minted only after the hook
\* has returned Ok
NothingBeforeApproval ==
    /\ ref # None => hook.state = "approved"
    /\ minted # << >> => hook.state = "approved"

\* C31: the hook is invoked exactly when access-token validation ended in
\* Expired or NoToken and renew_access_token_automatically is true, whether
\* or not a refresh token is present or a signer configured; the refresh
\* token is validated only after it, and no token is minted unless it
\* returned Ok.
C31_HookExactlyWhenRenewalDue ==
    /\ Returned => (HookInvoked <=> RenewalDue)
    /\ NothingBeforeApproval

\* C31, as amended: the hook is invoked exactly when the renewal is due and
\* the arguments of the hook could be extracted from the request; when their
\* extraction fails the hook is not invoked at all.
C31_HookExactlyWhenArgsExtracted ==
    /\ Returned => /\ (HookInvoked \/ hook.state = "args_err") <=> RenewalDue
                   /\ hook.state = "args_err" => TheResult = Err("RefreshAuthorizerCall", "args")
    /\ HookInvoked => RenewalDue
    /\ NothingBeforeApproval

\* C31, at most once: the hook is invoked only in a request in which it has
\* not been invoked, and its answer is never replaced by another
C31_HookAtMostOnce ==
    [][/\ (hook'.state = "called" /\ hook.state # "called") => hook.state = "not_called"
       /\ hook.state \in {"approved", "denied", "args_err"} =>
              hook' = hook \/ hook' = NotCalled]_vars

\* the hook approved a request without any refresh token, under an Authority
\* without a signer
C31_Witness ==
    /\ Returned /\ hook.state = "approved"
    /\ cfg.token_signer = None
    /\ RefreshStatus = "Absent"
    /\ minted = << >>

\* the renewal was due, the extraction of the arguments failed
C31_ArgsWitness ==
    /\ Returned /\ RenewalDue /\ hook.state = "args_err"

-----------------------------------------------------------------------------
(* C32 *)

\* the refresh token validate_refresh_token examined
ExaminedRefreshToken == Presented(cfg, req, cfg.refresh_token_name)

\* the claims c are those of the refresh token examined, whose signature
\* was verified against the verifying key
VerifiedClaims(c) ==
    /\ ExaminedRefreshToken # None
    /\ Unwrap(ExaminedRefreshToken).kind = "jwt"
    /\ Unwrap(ExaminedRefreshToken).key = cfg.verifying_key
    /\ Unwrap(ExaminedRefreshToken).custom = c

\* the claims inserted and the claims of every token minted are verified
RenewedFromVerifiedClaims ==
    /\ ext # None
    /\ VerifiedClaims(Unwrap(ext))
    /\ \A k \in 1..Len(minted) : VerifiedClaims(minted[k].value.body.custom)

\* C32: in every request that returns a TokenUpdate, the claims of each
\* minted token and the claims inserted into the extensions are those of a
\* token whose signature was verified in that request: the refresh token
\* validate_refresh_token examined, not another value at a different source.
C32_RenewedClaimsAreVerified ==
    (Returned /\ TheResult.ok /\ TheResult.val # None) => RenewedFromVerifiedClaims

\* What the code does: the claims are verified when the refresh token was
\* valid, and when the expired refresh token examined was the cookie; an
\* expired refresh token from another source is renewed with the unverified
\* claims of whatever the refresh cookie holds.
C32_VerifiedUnlessRenewedFromTheCookie ==
    (Returned /\ TheResult.ok /\ TheResult.val # None) =>
        \/ RenewedFromVerifiedClaims
        \/ /\ ref = Some(Expired)
           /\ RefreshSource # "cookie"
           /\ req.cookies[cfg.refresh_token_name] # None
           /\ ext = Some(Unwrap(req.cookies[cfg.refresh_token_name]).body.custom)

\* tokens minted for the claims of a cookie under a foreign key, while the
\* token examined was another one
C32_ForgedClaimsWitness ==
    /\ Returned /\ TheResult.ok /\ TheResult.val # None
    /\ RefreshSource = "header"
    /\ req.cookies[cfg.refresh_token_name] = Some(Str("", Tampered))
    /\ Unwrap(ExaminedRefreshToken).custom = 2
    /\ ext = Some(1)
    /\ Len(minted) = 2 /\ minted[2].value.body.custom = 1

-----------------------------------------------------------------------------
(* C33 *)

\* the hook denies the principal of the request: it does not approve if asked
HookDeniesPrincipal == hook.state # "approved"

\* C33: a request whose access token is still valid returns Ok(None) without
\* the hook being consulted, also while the hook denies its principal; once
\* the access token is expired beyond the leeway and as long as the hook
\* denies, every request fails with RefreshAuthorizerDenied, and no token is
\* minted.
C33_RevocationLatency ==
    /\ (Returned /\ AccessStatus = "Valid") =>
          TheResult = Ok(None) /\ hook = NotCalled
    /\ (Returned /\ AccessStatus = "Expired" /\ HookDeniesPrincipal) =>
          /\ ~TheResult.ok
          /\ TheResult.kind = "RefreshAuthorizerDenied"
    /\ HookDeniesPrincipal => minted = << >>

\* What the code does.  For access tokens that do not arrive in an
\* Authorization header: a valid one returns Ok(None) without the hook; an
\* expired one fails while the hook denies, with RefreshAuthorizerDenied once
\* the hook was consulted, with RefreshAuthorizerCall when its arguments
\* could not be extracted, and with the Expired error of the access token
\* when renew_access_token_automatically is off and the hook is never
\* consulted.  No token is minted without the approval of the hook.
C33_RevocationLatencyOffAuthorization ==
    /\ (Returned /\ AccessStatus = "Valid" /\ AccessSource # "authorization") =>
          TheResult = Ok(None) /\ hook = NotCalled
    /\ (Returned /\ AccessStatus = "Expired" /\ HookDeniesPrincipal
           /\ AccessSource # "authorization") =>
          /\ ~TheResult.ok
          /\ IF ~cfg.renew_access_token_automatically THEN TheResult = Expired
             ELSE IF hook.state = "args_err"
             THEN TheResult = Err("RefreshAuthorizerCall", "args")
             ELSE TheResult = Err("RefreshAuthorizerDenied", hook.err)
    /\ HookDeniesPrincipal => minted = << >>

\* an unexpired access token in an Authorization header is turned away
C33_BearerWitness ==
    /\ Returned /\ AccessStatus = "Valid" /\ AccessSource = "authorization"
    /\ ~TheResult.ok /\ TheResult.kind = "TokenParse"

\* the access token has expired in a cookie and the hook denies
C33_DeniedWitness ==
    /\ Returned /\ AccessStatus = "Expired" /\ AccessSource = "cookie"
    /\ TheResult = Err("RefreshAuthorizerDenied", "403")
    /\ RefreshStatus = "Valid" /\ cfg.token_signer # None

-----------------------------------------------------------------------------
(* C34 *)

InvalidStatuses == {"Malformed", "BadSignature", "Expired"}

\* the error of a token in one of these conditions
ErrorOfStatus(s) ==
    CASE s = "Malformed" -> Err("TokenParse", "InvalidTokenStructure")
      [] s = "BadSignature" -> Err("TokenValidation", "InvalidSignature")
      [] s = "Expired" -> Expired

\* a source below the one whose token is validated holds a valid token
LowerHoldsValid(a, rq, name, clock) ==
    \E i \in 2..Len(Holding(a, rq, name)) :
        Status(a, Held(rq, Holding(a, rq, name)[i], name), clock) = "Valid"

C34_RefreshWitness ==
    /\ ref # None /\ RefreshStatus = "BadSignature"
    /\ LowerHoldsValid(cfg, req, cfg.refresh_token_name, now)
    /\ Unwrap(ref) = Err("TokenValidation", "InvalidSignature")

-----------------------------------------------------------------------------
(* C35 *)

\* the claims of the token that authenticated the request: the access token,
\* or the refresh token the access token was renewed from
AuthenticatingClaims == IF Unwrap(acc).ok THEN AccessClaims ELSE RefreshClaims

\* C35: when verify_service_request returns, the extensions of the request
\* hold claims inserted by the Authority if and only if the result is Ok:
\* nothing is inserted on an Err path, a failure to create a token during the
\* renewal included, and on an Ok path the claims inserted are those of the
\* token that authenticated the request.
C35_ClaimsInjection ==
    Returned =>
        /\ ext # None <=> TheResult.ok
        /\ TheResult.ok => ext = Some(AuthenticatingClaims)

\* What the code does: claims are in the extensions exactly when the result
\* is Ok, and they are those of the authenticating token except in the
\* renewal of both tokens, where they are the unverified claims of the
\* refresh cookie.
C35_ClaimsInjectedIffOk ==
    Returned =>
        /\ ext # None <=> TheResult.ok
        /\ TheResult.ok =>
              IF Unwrap(acc).ok \/ Unwrap(ref).ok
              THEN ext = Some(AuthenticatingClaims)
              ELSE ext = Some(Unwrap(req.cookies[cfg.refresh_token_name]).body.custom)

\* the renewal fails to create the access token: Err, nothing inserted
C35_TokenCreationWitness ==
    /\ Returned /\ TheResult = Err("TokenCreation", "Claims")
    /\ hook.state = "approved" /\ ext = None /\ minted = << >>

\* the claims inserted are not those of the refresh token that was validated
C35_OtherClaimsWitness ==
    /\ Returned /\ TheResult.ok /\ ~Unwrap(acc).ok
    /\ RefreshSource = "header" /\ RefreshStatus = "Expired"
    /\ ext # Some(RefreshClaims)

-----------------------------------------------------------------------------
(* C36 *)

\* the request that presents exactly the cookies of a token update
FollowUpRequest(u) ==
    LET cs == u.access_cookie \o u.refresh_cookie IN
    [NoRequest EXCEPT !.cookies =
        [n \in Names |->
            IF \E k \in 1..Len(cs) : cs[k].name = n
            THEN Some(cs[CHOOSE k \in 1..Len(cs) : cs[k].name = n].value)
            ELSE None]]

\* the follow-up request at a clock reading is authenticated by its access
\* token alone: verify_service_request takes its first arm, which inserts the
\* claims and returns Ok(None) without a call of the hook
FollowUpAccepted(u, clock, claims) ==
    LET access == validate_access_token(cfg, FollowUpRequest(u), clock) IN
    /\ access.ok
    /\ access.val.custom = claims

\* the clock readings from now on at which the new access token is unexpired
WithinNewLifetime(u) ==
    { clock \in now..MaxSessionTime :
        clock <= DateTime(Unwrap(u.access_cookie).value.body.exp) }

\* a request has returned Ok(Some(update))
Updated == Returned /\ TheResult.ok /\ TheResult.val # None

\* C36: for every Authority with a token signer, after a request that
\* returned Ok(Some(update)), a follow-up request that presents exactly the
\* cookies of the update within the lifetime of the new access token returns
\* Ok(None) with the same claims, and the hook is not invoked.
C36_SessionContinuity ==
    Updated =>
        \A clock \in WithinNewLifetime(Unwrap(TheResult.val)) :
            FollowUpAccepted(Unwrap(TheResult.val), clock, Unwrap(ext))

\* What the code does: the follow-up request is accepted when the Authority
\* reads cookies and looks the access token up under the name its signer
\* gives the cookie.
C36_SessionContinuityUnderSignerNames ==
    (Updated /\ cfg.enable_cookie_tokens
        /\ cfg.access_token_name = Unwrap(cfg.token_signer).access_token_name) =>
        \A clock \in WithinNewLifetime(Unwrap(TheResult.val)) :
            FollowUpAccepted(Unwrap(TheResult.val), clock, Unwrap(ext))

\* a client presents the access cookie of an update, and is asked for a
\* renewal again because the Authority looks for another name
C36_RenewedAgainWitness ==
    /\ Updated /\ pc = "inner"
    /\ cfg.access_token_name # Unwrap(cfg.token_signer).access_token_name
    /\ jar["jwt_access"] # None
    /\ Unwrap(jar["jwt_access"]).body.iat > 0
    /\ t0 <= DateTime(Unwrap(jar["jwt_access"]).body.exp)
    /\ acc = Some(NoToken) /\ hook.state = "approved"

\* a client presents the access cookie of an update and is let through
C36_Witness ==
    /\ Returned /\ TheResult = Ok(None) /\ hook = NotCalled
    /\ Unwrap(req.cookies[AccessName]).body.iat > 0
    /\ ext = Some(Unwrap(req.cookies[AccessName]).body.custom)

-----------------------------------------------------------------------------
(* C37 *)

\* the refresh cookie of the login, and the clock reading of its expiry
LoginRefresh == create_refresh_cookie(Unwrap(cfg.token_signer), ClientClaims, 0).val
RefreshExpiry == DateTime(LoginRefresh.value.body.exp)

\* refresh expiry + leeway + access_token_lifetime + leeway
LatestAuthentication ==
    RefreshExpiry + cfg.leeway + Unwrap(cfg.token_signer).access_token_lifetime
        + cfg.leeway

\* no refresh token is minted, and the client still holds the one of its login
NoNewRefreshToken ==
    /\ Len(minted) <= 1
    /\ (Returned /\ TheResult.ok /\ TheResult.val # None) =>
          Unwrap(TheResult.val).refresh_cookie = None
    /\ jar[Unwrap(cfg.token_signer).refresh_token_name] = Some(LoginRefresh.value)

\* C37: with renew_refresh_token_automatically = false no sequence of
\* requests yields a new refresh token; once the refresh token is expired
\* beyond the leeway, every request whose access token is absent or expired
\* fails; and a client that holds one access/refresh pair is not
\* authenticated later than refresh expiry + leeway + access_token_lifetime
\* + leeway.
C37_BoundedSession ==
    ~cfg.renew_refresh_token_automatically =>
        /\ NoNewRefreshToken
        /\ (Returned /\ RefreshStatus = "Expired"
               /\ AccessStatus \in {"Absent", "Expired"}) => ~TheResult.ok
        /\ (Returned /\ TheResult.ok) => now <= LatestAuthentication

\* the second part for the requests of any client
C37_FailsOnceRefreshExpired ==
    (~cfg.renew_refresh_token_automatically /\ Returned
        /\ RefreshStatus = "Expired" /\ AccessStatus \in {"Absent", "Expired"}) =>
        ~TheResult.ok

\* the refresh token of the login has expired: the hook approves the renewal
\* of the expired access token, and the request fails with Expired
C37_Witness ==
    /\ Returned /\ TheResult = Expired
    /\ AccessStatus = "Expired" /\ RefreshStatus = "Expired"
    /\ hook.state = "approved" /\ ref = Some(Expired)
    /\ now > LatestAuthentication

\* the client is authenticated at the latest time the claim allows, by an
\* access token renewed at the last moment of the refresh token
C37_LatestWitness ==
    /\ Returned /\ TheResult = Ok(None)
    /\ now = LatestAuthentication
    /\ Unwrap(req.cookies[AccessName]).body.iat > 0

-----------------------------------------------------------------------------
(* C38 *)

\* verify_service_request has started and the hook has not completed: the
\* future is suspended in the extraction of the hook's arguments or in the
\* hook, where it may be dropped
SuspendedBeforeHookCompleted == pc \in {"args", "hook"}

\* C38: from the start of verify_service_request until the hook has
\* completed, the extensions of the request are unchanged and no token is
\* minted: a request cancelled in this window leaves nothing behind.
C38_NothingBeforeHookCompletes ==
    SuspendedBeforeHookCompleted =>
        /\ ext = None
        /\ minted = << >>
        /\ ref = None
        /\ result = None
        /\ inner = << >>

\* the same as a property of the steps taken inside this window
C38_WindowStepsChangeNothing ==
    [][(SuspendedBeforeHookCompleted /\ SuspendedBeforeHookCompleted')
          => (ext' = ext /\ minted' = minted /\ req' = req)]_vars

\* a request with a valid refresh token, about to be renewed, is suspended
\* in the hook while time passes
C38_Witness ==
    /\ pc = "hook" /\ hook.state = "called" /\ now > t0
    /\ cfg.token_signer # None
    /\ Status(cfg, Presented(cfg, req, cfg.refresh_token_name), now) = "Valid"
    /\ ext = None /\ minted = << >>

-----------------------------------------------------------------------------
(* C39 *)

\* C39: in the middleware with a guard, after a successful verification: if
\* the guard returns false, the wrapped service is not called, the claims
\* are removed from the extensions of the request and the result is
\* Unauthorized; if the extraction of the guard's arguments fails, the
\* wrapped service is not called and the error of the extraction is
\* returned; the wrapped service is called only when the guard returned
\* true, and the guard is asked only after a successful verification.
C39_GuardedService ==
    /\ guard = "false" =>
          /\ inner = << >>
          /\ ext = None
          /\ response = Some(Unauthorized)
    /\ guard = "args_err" =>
          /\ inner = << >>
          /\ response = Some(GuardArgsError)
    /\ inner # << >> => guard = "true"
    /\ guard # NotAsked => Returned /\ TheResult.ok

\* the guard turns away a request whose tokens were just renewed
C39_Witness ==
    /\ guard = "false" /\ pc = "done"
    /\ TheResult.ok /\ TheResult.val # None /\ minted # << >>
    /\ ext = None /\ inner = << >>
    /\ response = Some(Unauthorized)

\* the arguments of the guard cannot be extracted
C39_ArgsWitness ==
    /\ guard = "args_err" /\ TheResult = Ok(None)
    /\ response = Some(GuardArgsError) /\ inner = << >>

\* the guard lets the request through to the wrapped service
C39_ServedWitness ==
    /\ guard = "true" /\ pc = "done"
    /\ inner = << ext >> /\ ext # None
    /\ response # None /\ Unwrap(response).ok

-----------------------------------------------------------------------------
(* C40 *)

\* the Authorities the RestAuthority is compared with: header tokens are the
\* only enabled source, renew_access_token_automatically is on; names, key
\* and time options are those of the RestAuthority
HeaderOnlyAuthorities(ra) ==
    { [a EXCEPT !.leeway = ra.leeway] :
        a \in { b \in Authorities :
                  /\ b.enable_header_tokens
                  /\ ~b.enable_query_tokens
                  /\ ~b.enable_authorization_header
                  /\ ~b.enable_cookie_tokens
                  /\ b.renew_access_token_automatically
                  /\ b.access_token_name = ra.access_token_name
                  /\ b.refresh_token_name = ra.refresh_token_name
                  /\ b.verifying_key = ra.verifying_key } }

\* what Authority::verify_service_request returns and inserts for a request
\* when its hook approves
AuthorityVerdict(a, rq, clock) ==
    LET access == validate_access_token(a, rq, clock) IN
    IF access.ok THEN [result |-> Ok(None), ext |-> Some(access.val.custom)]
    ELSE IF EntersRefreshBranch(a, access)
    THEN [result |-> RefreshBranch(a, rq, clock).result,
          ext |-> RefreshBranch(a, rq, clock).ext]
    ELSE [result |-> access, ext |-> None]

\* the RestAuthority and the Authority agree: both accept and insert the same
\* claims, or both reject with an error of the same kind
Agree(v) ==
    IF TheResult.ok THEN v.result.ok /\ ext = v.ext
    ELSE ~v.result.ok /\ TheResult.kind = v.result.kind

Panicked == ~TheResult.ok /\ TheResult.kind = "Panic"

\* C40: for every request that carries tokens in headers only, the
\* RestAuthority accepts, with the claims inserted, exactly when an Authority
\* with header tokens as its only source, renew_access_token_automatically on
\* and an approving hook accepts, rejects with the same kind of error
\* otherwise, and never panics, not even for a header value that is no
\* string.
C40_RestAuthorityIsSubset ==
    Returned =>
        /\ ~Panicked
        /\ \A a \in HeaderOnlyAuthorities(cfg) : Agree(AuthorityVerdict(a, req, t0))

StringHeaders(rq) ==
    \A n \in Names : rq.headers[n] # None => to_str(Unwrap(rq.headers[n])).ok

\* What the code does.  The RestAuthority panics exactly when it reads a
\* header value that is no string.  For the other requests it agrees with
\* the Authorities that have a token signer and do not renew refresh tokens,
\* unless such an Authority fails to create the new access token.
C40_SubsetForStringHeaders ==
    Returned =>
        /\ Panicked => ~StringHeaders(req)
        /\ StringHeaders(req) =>
              \A a \in HeaderOnlyAuthorities(cfg) :
                  (a.token_signer # None /\ ~a.renew_refresh_token_automatically) =>
                      \/ AuthorityVerdict(a, req, t0).result = Err("TokenCreation", "Claims")
                      \/ Agree(AuthorityVerdict(a, req, t0))

\* an access_token header that is no string: the RestAuthority panics where
\* the Authority answers NoToken
C40_PanicWitness ==
    /\ Returned /\ Panicked
    /\ req.headers[AccessName] = Some(Str(NotAString, Garbage))
    /\ req.headers[RefreshName] = None
    /\ \A a \in HeaderOnlyAuthorities(cfg) : AuthorityVerdict(a, req, t0).result = NoToken

\* both accept a request on its valid refresh token
C40_Witness ==
    /\ Returned /\ TheResult.ok /\ ref # None
    /\ \E a \in HeaderOnlyAuthorities(cfg) :
          /\ AuthorityVerdict(a, req, t0).result.ok
          /\ AuthorityVerdict(a, req, t0).ext = ext

\* the RestAuthority accepts on a valid refresh token, the Authority without
\* token signer answers NoTokenSigner
C40_NoSignerWitness ==
    /\ Returned /\ TheResult.ok /\ StringHeaders(req)
    /\ \E a \in HeaderOnlyAuthorities(cfg) :
          /\ a.token_signer = None
          /\ AuthorityVerdict(a, req, t0).result = NoTokenSigner

====
